---- MODULE Spec2Model ----
(***************************************************************************)
(* FinRo.ro content agents (Node.js): the shared utilities (utils.js) and  *)
(* the run() pipelines of the finance, insurance, tech and investitii      *)
(* agents, as a state machine over the on-disk data store.                 *)
(*                                                                         *)
(* A JavaScript string is a sequence of one-character strings.  The five   *)
(* Romanian letters with diacritics are written "a~" "a^" "i^" "s," "t,"   *)
(* (upper case "A~" ...): each is one character of the model.              *)
(***************************************************************************)
EXTENDS Integers, Sequences, FiniteSets, TLC

VARIABLES
  pc,           \* position of the agent process: idle, fetch, process, persist, save, index, done, fatal
  agent,        \* which agent script the current process runs
  argv,         \* process.argv.slice(2) of the current process
  dryRun,       \* parseArgs().dryRun
  maxArticles,  \* parseArgs().maxArticles (after the agent's own defaulting)
  loaded,       \* the fingerprints loadSeen returned at the start of the run
  seen,         \* the in-memory Set `seen`, in insertion order
  srcIdx,       \* number of sources fetched so far
  failed,       \* the sources (by position) whose fetch failed in this run: its error log lines
  allEntries,   \* allEntries / all
  j,            \* number of entries of allEntries the accept loop has consumed
  newArticles,  \* newArticles / arts: sequence of [article, hash]
  k,            \* number of accepted articles whose persistence step has completed
  exitCode,     \* process exit status of the last finished run
  runs,         \* number of runs started; also the wall clock read by new Date()
  seenFile,     \* DATA_DIR/seen_<agent>.json, per agent
  articleFiles, \* DATA_DIR/article_<hash>.json: function from the hash to the file's content
  docs,         \* OUTPUT_DIR/<slug>.html, per category directory
  indexFile,    \* DATA_DIR/index_<category>.json, per category
  call,         \* a direct call of one utility function: its name and arguments
  ret,          \* the value that call returned
  other         \* the local state of a second agent process, while it is not the one taking steps

vars == << pc, agent, argv, dryRun, maxArticles, loaded, seen, srcIdx, failed, allEntries, j,
           newArticles, k, exitCode, runs, seenFile, articleFiles, docs, indexFile,
           call, ret, other >>

runVars == << pc, agent, argv, dryRun, maxArticles, loaded, seen, srcIdx, failed, allEntries, j,
              newArticles, k, exitCode, runs >>

diskVars == << seenFile, articleFiles, docs, indexFile >>

-----------------------------------------------------------------------------
(* JavaScript string primitives *)

UpperChars ==
  << "A","B","C","D","E","F","G","H","I","J","K","L","M","N","O","P","Q","R","S","T",
     "U","V","W","X","Y","Z","A~","A^","I^","S,","T," >>

LowerChars ==
  << "a","b","c","d","e","f","g","h","i","j","k","l","m","n","o","p","q","r","s","t",
     "u","v","w","x","y","z","a~","a^","i^","s,","t," >>

DigitChars == << "0","1","2","3","4","5","6","7","8","9" >>

WhitespaceChars == { " ", "\n", "\t" }

IndexIn(c, tuple) ==
  IF \E i \in 1..Len(tuple) : tuple[i] = c
    THEN CHOOSE i \in 1..Len(tuple) : tuple[i] = c /\ \A m \in 1..(i-1) : tuple[m] # c
    ELSE 0

Min(a, b) == IF a < b THEN a ELSE b

Max(a, b) == IF a > b THEN a ELSE b

\* String.prototype.toLowerCase, one character
toLowerChar(c) ==
  IF IndexIn(c, UpperChars) > 0 THEN LowerChars[IndexIn(c, UpperChars)] ELSE c

\* String.prototype.toLowerCase
toLowerCase(s) == [i \in 1..Len(s) |-> toLowerChar(s[i])]

\* String.prototype.includes
includes(s, sub) ==
  \E i \in 0..(Len(s) - Len(sub)) : \A m \in 1..Len(sub) : s[i + m] = sub[m]

\* String.prototype.slice(0, n) and Array.prototype.slice(0, n), n >= 0
slice0(s, n) == SubSeq(s, 1, Min(n, Len(s)))

\* String.prototype.trim
trimStart(s) ==
  LET kept == { i \in 1..Len(s) : s[i] \notin WhitespaceChars }
  IN  IF kept = { } THEN << >>
      ELSE SubSeq(s, CHOOSE i \in kept : \A m \in kept : i <= m, Len(s))

trimEnd(s) ==
  LET kept == { i \in 1..Len(s) : s[i] \notin WhitespaceChars }
  IN  IF kept = { } THEN << >>
      ELSE SubSeq(s, 1, CHOOSE i \in kept : \A m \in kept : i >= m)

trim(s) == trimEnd(trimStart(s))

\* s.split(/\s+/).length: one more than the number of maximal whitespace runs
splitWhitespaceLength(s) ==
  1 + Cardinality({ i \in 1..Len(s) :
        s[i] \in WhitespaceChars /\ (i = 1 \/ s[i - 1] \notin WhitespaceChars) })

\* a.localeCompare(b) on strings of decimal digits: -1, 0 or 1
RECURSIVE localeCompare(_, _)
localeCompare(a, b) ==
  IF a = << >> /\ b = << >> THEN 0
  ELSE IF a = << >> THEN -1
  ELSE IF b = << >> THEN 1
  ELSE IF IndexIn(Head(a), DigitChars) < IndexIn(Head(b), DigitChars) THEN -1
  ELSE IF IndexIn(Head(a), DigitChars) > IndexIn(Head(b), DigitChars) THEN 1
  ELSE localeCompare(Tail(a), Tail(b))

\* [...new Set(list)]: duplicates removed, first occurrence kept
RECURSIVE uniq(_)
uniq(list) ==
  IF list = << >> THEN << >>
  ELSE LET init == uniq(SubSeq(list, 1, Len(list) - 1))
           last == list[Len(list)]
       IN  IF \E i \in 1..Len(init) : init[i] = last THEN init ELSE Append(init, last)

-----------------------------------------------------------------------------
(* Constants of the agents *)

Agents == { "finance", "insurance", "tech", "investitii" }

\* the category each agent writes: its articles' category, its OUTPUT_DIR and its index
CategoryOf(a) ==
  CASE a = "finance"    -> "finante"
    [] a = "insurance"  -> "asigurari"
    [] a = "tech"       -> "tech"
    [] a = "investitii" -> "investitii"

Categories == { CategoryOf(a) : a \in Agents }

SUBCATEGORIES_finance ==
  <<
    [label |-> "credite", keywords |-> <<
      <<"c","r","e","d","i","t">>,
      <<"c","r","e","d","i","t","e">>,
      <<"i","p","o","t","e","c","a","r">>,
      <<"i","m","o","b","i","l","i","a","r">>,
      <<"d","o","b","a^","n","d","a~">>,
      <<"I","R","C","C">>,
      <<"R","O","B","O","R">>,
      <<"i^","m","p","r","u","m","u","t">>,
      <<"r","e","f","i","n","a","n","t,","a","r","e">> >>],
    [label |-> "economisire", keywords |-> <<
      <<"e","c","o","n","o","m","i","i">>,
      <<"e","c","o","n","o","m","i","s","i","r","e">>,
      <<"d","e","p","o","z","i","t">>,
      <<"c","o","n","t"," ","e","c","o","n","o","m","i","i">>,
      <<"b","u","g","e","t">> >>],
    [label |-> "investitii", keywords |-> <<
      <<"i","n","v","e","s","t","i","t,","i">>,
      <<"a","c","t,","i","u","n","i">>,
      <<"o","b","l","i","g","a","t,","i","u","n","i">>,
      <<"E","T","F">>,
      <<"b","u","r","s","a~">>,
      <<"B","V","B">>,
      <<"p","o","r","t","o","f","o","l","i","u">>,
      <<"t","i","t","l","u","r","i"," ","d","e"," ","s","t","a","t">> >>],
    [label |-> "taxe", keywords |-> <<
      <<"t","a","x","e">>,
      <<"i","m","p","o","z","i","t">>,
      <<"A","N","A","F">>,
      <<"d","e","c","l","a","r","a","t,","i","a"," ","u","n","i","c","a~">>,
      <<"C","A","S">>,
      <<"C","A","S","S">>,
      <<"T","V","A">>,
      <<"f","i","s","c","a","l">>,
      <<"P","F","A">> >>],
    [label |-> "pensii", keywords |-> <<
      <<"p","e","n","s","i","e">>,
      <<"p","i","l","o","n","u","l">>,
      <<"f","o","n","d"," ","d","e"," ","p","e","n","s","i","i">>,
      <<"C","N","P","P">>,
      <<"p","u","n","c","t"," ","d","e"," ","p","e","n","s","i","e">> >>]
  >>

SUBCATEGORIES_insurance ==
  <<
    [label |-> "rca", keywords |-> <<
      <<"R","C","A">>,
      <<"a","s","i","g","u","r","a","r","e"," ","a","u","t","o">>,
      <<"o","b","l","i","g","a","t","o","r","i","e">>,
      <<"d","a","u","n","e"," ","a","u","t","o">>,
      <<"p","o","l","i","t,","a~"," ","a","u","t","o">>,
      <<"B","A","A","R">> >>],
    [label |-> "casco", keywords |-> <<
      <<"C","A","S","C","O">>,
      <<"m","i","n","i","C","A","S","C","O">>,
      <<"a","s","i","g","u","r","a","r","e"," ","f","a","c","u","l","t","a","t","i","v","a~">>,
      <<"a","v","a","r","i","e">>,
      <<"f","u","r","t"," ","a","u","t","o">> >>],
    [label |-> "sanatate", keywords |-> <<
      <<"a","s","i","g","u","r","a","r","e"," ","s","a~","n","a~","t","a","t","e">>,
      <<"m","e","d","i","c","a","l">>,
      <<"s","p","i","t","a","l","i","z","a","r","e">>,
      <<"a","s","i","g","u","r","a","r","e"," ","p","r","i","v","a","t","a~">> >>],
    [label |-> "calatorie", keywords |-> <<
      <<"a","s","i","g","u","r","a","r","e"," ","c","a~","l","a~","t","o","r","i","e">>,
      <<"t","r","a","v","e","l">>,
      <<"c","a","r","t","e"," ","v","e","r","d","e">>,
      <<"a","s","i","s","t","e","n","t,","a~"," ","r","u","t","i","e","r","a~">> >>],
    [label |-> "locuinta", keywords |-> <<
      <<"a","s","i","g","u","r","a","r","e"," ","l","o","c","u","i","n","t,","a~">>,
      <<"P","A","D">>,
      <<"P","A","I","D">>,
      <<"c","u","t","r","e","m","u","r">>,
      <<"i","n","u","n","d","a","t,","i","i">> >>]
  >>

SUBS_tech ==
  <<
    [label |-> "telefoane", keywords |-> <<
      <<"t","e","l","e","f","o","n">>,
      <<"s","m","a","r","t","p","h","o","n","e">>,
      <<"S","a","m","s","u","n","g">>,
      <<"i","P","h","o","n","e">>,
      <<"P","i","x","e","l">>,
      <<"O","n","e","P","l","u","s">>,
      <<"X","i","a","o","m","i">>,
      <<"G","a","l","a","x","y">> >>],
    [label |-> "laptopuri", keywords |-> <<
      <<"l","a","p","t","o","p">>,
      <<"n","o","t","e","b","o","o","k">>,
      <<"M","a","c","B","o","o","k">>,
      <<"T","h","i","n","k","P","a","d">>,
      <<"D","e","l","l"," ","X","P","S">>,
      <<"A","S","U","S">>,
      <<"L","e","n","o","v","o">> >>],
    [label |-> "software", keywords |-> <<
      <<"a","p","p">>,
      <<"s","o","f","t","w","a","r","e">>,
      <<"V","P","N">>,
      <<"a","n","t","i","v","i","r","u","s">>,
      <<"W","i","n","d","o","w","s">>,
      <<"m","a","c","O","S">>,
      <<"b","r","o","w","s","e","r">> >>],
    [label |-> "ai", keywords |-> <<
      <<"A","I">>,
      <<"C","h","a","t","G","P","T">>,
      <<"C","l","a","u","d","e">>,
      <<"G","e","m","i","n","i">>,
      <<"C","o","p","i","l","o","t">>,
      <<"L","L","M">>,
      <<"G","P","T">> >>],
    [label |-> "accesorii", keywords |-> <<
      <<"c","a","s","t","i">>,
      <<"h","e","a","d","p","h","o","n","e","s">>,
      <<"e","a","r","b","u","d","s">>,
      <<"s","m","a","r","t","w","a","t","c","h">>,
      <<"t","a","b","l","e","t","a">>,
      <<"m","o","n","i","t","o","r">> >>]
  >>

SUBS_investitii ==
  <<
    [label |-> "finante_internationale", keywords |-> <<
      <<"g","l","o","b","a","l">>,
      <<"i","n","t","e","r","n","a","t","i","o","n","a","l">>,
      <<"F","e","d">>,
      <<"B","C","E">>,
      <<"E","C","B">>,
      <<"i","n","f","l","a","t","i","e">>,
      <<"d","o","l","l","a","r">>,
      <<"e","u","r","o">>,
      <<"S","&","P">>,
      <<"N","A","S","D","A","Q">>,
      <<"c","r","y","p","t","o">>,
      <<"b","i","t","c","o","i","n">>,
      <<"o","i","l">>,
      <<"g","o","l","d">>,
      <<"a","u","r">>,
      <<"t","a","r","i","f","f">> >>],
    [label |-> "etf_bvb", keywords |-> <<
      <<"E","T","F">>,
      <<"B","V","B">>,
      <<"B","E","T">>,
      <<"b","u","r","s","a">>,
      <<"a","c","t","i","u","n","i">>,
      <<"f","o","n","d">>,
      <<"T","V","B","E","T","E","T","F">>,
      <<"I","n","t","e","r","C","a","p","i","t","a","l">>,
      <<"P","a","t","r","i","a">>,
      <<"o","b","l","i","g","a","t","i","u","n","i">>,
      <<"b","o","n","d","s">>,
      <<"H","i","d","r","o","e","l","e","c","t","r","i","c","a">>,
      <<"B","a","n","c","a"," ","T","r","a","n","s","i","l","v","a","n","i","a">>,
      <<"R","o","m","g","a","z">>,
      <<"d","i","v","i","d","e","n","d">>,
      <<"p","o","r","t","o","f","o","l","i","u">> >>],
    [label |-> "imobiliare", keywords |-> <<
      <<"i","m","o","b","i","l","i","a","r">>,
      <<"r","e","a","l"," ","e","s","t","a","t","e">>,
      <<"a","p","a","r","t","a","m","e","n","t">>,
      <<"r","e","z","i","d","e","n","t","i","a","l">>,
      <<"d","e","z","v","o","l","t","a","t","o","r">>,
      <<"d","e","v","e","l","o","p","e","r">>,
      <<"c","o","n","s","t","r","u","c","t","i">>,
      <<"C","o","r","e","s","i">>,
      <<"A","F","I">>,
      <<"O","n","e"," ","U","n","i","t","e","d">>,
      <<"I","U","L","I","U","S">>,
      <<"S","p","e","e","d","w","e","l","l">>,
      <<"N","E","P","I">>,
      <<"W","D","P">>,
      <<"b","i","r","o","u","r","i">>,
      <<"o","f","f","i","c","e">>,
      <<"r","e","t","a","i","l">>,
      <<"m","a","l","l">>,
      <<"h","o","t","e","l">>,
      <<"p","r","e","t">>,
      <<"c","h","i","r","i","i">> >>],
    [label |-> "investitii_corporative", keywords |-> <<
      <<"i","n","v","e","s","t","i","t">>,
      <<"f","a","b","r","i","c","a">>,
      <<"f","a","c","t","o","r","y">>,
      <<"p","l","a","n","t">>,
      <<"F","D","I">>,
      <<"c","o","r","p","o","r","a","t">>,
      <<"m","u","l","t","i","n","a","t","i","o","n","a","l">>,
      <<"s","t","r","a","i","n">>,
      <<"f","o","r","e","i","g","n">>,
      <<"m","i","l","i","o","a","n","e"," ","e","u","r","o">>,
      <<"C","o","n","t","i","n","e","n","t","a","l">>,
      <<"B","o","s","c","h">>,
      <<"K","n","a","u","f">>,
      <<"S","t","a","d","a">>,
      <<"R","e","n","a","u","l","t">>,
      <<"D","a","c","i","a">>,
      <<"l","o","c","u","r","i"," ","d","e"," ","m","u","n","c","a">> >>]
  >>

BaseKeywords_finance == << <<"f","i","n","a","n","t,","e"," ","p","e","r","s","o","n","a","l","e">>, <<"R","o","m","a^","n","i","a">>, <<"2","0","2","5">> >>
BaseKeywords_insurance == << <<"a","s","i","g","u","r","a~","r","i">>, <<"R","o","m","a^","n","i","a">>, <<"2","0","2","5">> >>
BaseKeywords_tech == << <<"t","e","h","n","o","l","o","g","i","e">>, <<"r","e","c","e","n","z","i","e">>, <<"2","0","2","5">> >>
BaseKeywords_investitii == << <<"i","n","v","e","s","t","i","t","i","i">>, <<"R","o","m","a","n","i","a">>, <<"2","0","2","6">> >>
SiteSuffix == <<" ","|"," ","F","i","n","R","o",".","r","o">>
Ellipsis == <<".",".",".">>
DryRunFlag == <<"-","-","d","r","y","-","r","u","n">>
MaxArticlesFlag == <<"-","-","m","a","x","-","a","r","t","i","c","l","e","s">>
GeneralLabel == "general"
Filter_zf_asig == << <<"a","s","i","g","u","r">>, <<"R","C","A">>, <<"C","A","S","C","O">>, <<"p","o","l","i","t,">> >>

Filter_techradar == << <<"r","e","v","i","e","w">>, <<"b","e","s","t">>, <<"v","s">> >>

Filter_ri_biz == << <<"E","T","F">>, <<"B","V","B">>, <<"i","n","v","e","s","t","i","t">>, <<"a","c","t","i","u","n","i">>, <<"f","o","n","d">>, <<"b","u","r","s","a">>, <<"s","t","o","c","k">>, <<"b","o","n","d">>, <<"r","e","a","l"," ","e","s","t","a","t","e">>, <<"i","m","o","b","i","l","i","a","r">>, <<"d","e","v","e","l","o","p","e","r">>, <<"f","a","b","r","i","c","a">>, <<"f","a","c","t","o","r","y">>, <<"m","i","l","i","o","a","n","e">>, <<"F","D","I">>, <<"c","o","r","p","o","r","a","t">> >>

Filter_zf_inv == << <<"B","V","B">>, <<"E","T","F">>, <<"b","u","r","s","a">>, <<"i","n","v","e","s","t","i","t">>, <<"i","m","o","b","i","l","i","a","r">>, <<"d","e","z","v","o","l","t","a","t">>, <<"p","r","o","i","e","c","t">>, <<"f","a","b","r","i","c","a">> >>

Filter_br == << <<"p","r","o","p","e","r","t","y">>, <<"r","e","a","l"," ","e","s","t","a","t","e">>, <<"r","e","s","i","d","e","n","t","i","a","l">>, <<"o","f","f","i","c","e">>, <<"l","o","g","i","s","t","i","c","s">>, <<"i","n","v","e","s","t","m","e","n","t">>, <<"C","l","u","j">>, <<"B","r","a","s","o","v">>, <<"T","i","m","i","s","o","a","r","a">> >>

Filter_profit_inv == << <<"i","n","v","e","s","t","i","t">>, <<"f","a","b","r","i","c","a">>, <<"p","r","o","i","e","c","t">>, <<"m","i","l","i","o","a","n","e">>, <<"i","m","o","b","i","l","i","a","r">>, <<"d","e","z","v","o","l","t","a","t">> >>

CITIES ==
  <<
    [label |-> "brasov", keywords |-> <<
      <<"B","r","a","s","o","v">>,
      <<"C","o","r","e","s","i">>,
      <<"A","F","I"," ","P","a","r","k"," ","B","r","a","s","o","v">>,
      <<"G","h","i","m","b","a","v">> >>],
    [label |-> "bucuresti", keywords |-> <<
      <<"B","u","c","u","r","e","s","t","i">>,
      <<"B","u","c","h","a","r","e","s","t">>,
      <<"I","l","f","o","v">>,
      <<"O","n","e"," ","U","n","i","t","e","d">>,
      <<"F","l","o","r","e","a","s","c","a">>,
      <<"P","i","p","e","r","a">> >>],
    [label |-> "timisoara", keywords |-> <<
      <<"T","i","m","i","s","o","a","r","a">>,
      <<"I","u","l","i","u","s"," ","T","o","w","n">>,
      <<"P","a","l","t","i","m">>,
      <<"C","o","n","t","i","n","e","n","t","a","l"," ","T","i","m","i","s","o","a","r","a">> >>],
    [label |-> "cluj", keywords |-> <<
      <<"C","l","u","j">>,
      <<"C","l","u","j","-","N","a","p","o","c","a">>,
      <<"R","I","V","U","S">>,
      <<"I","u","l","i","u","s"," ","M","a","l","l"," ","C","l","u","j">> >>],
    [label |-> "emergente", keywords |-> <<
      <<"O","r","a","d","e","a">>,
      <<"S","i","b","i","u">>,
      <<"I","a","s","i">>,
      <<"C","o","n","s","t","a","n","t","a">>,
      <<"C","r","a","i","o","v","a">>,
      <<"A","r","a","d">>,
      <<"A","l","b","a"," ","I","u","l","i","a">> >>]
  >>

-----------------------------------------------------------------------------
(* JavaScript numbers: an integer or NaN *)

NaN == [nan |-> TRUE, val |-> 0]

Num(n) == [nan |-> FALSE, val |-> n]

\* Boolean(x) for a number x: 0 and NaN are falsy
truthy(x) == ~x.nan /\ x.val # 0

\* n >= x for an integer n and a number x: every comparison with NaN is false
atLeast(n, x) == ~x.nan /\ n >= x.val

RECURSIVE digitsValue(_, _)
digitsValue(s, acc) ==
  IF s # << >> /\ IndexIn(Head(s), DigitChars) > 0
    THEN digitsValue(Tail(s), acc * 10 + (IndexIn(Head(s), DigitChars) - 1))
    ELSE acc

\* parseInt(str) in radix 10: leading whitespace, an optional sign, the leading digits
parseInt(str) ==
  LET s    == trimStart(str)
      neg  == s # << >> /\ Head(s) = "-"
      body == IF s # << >> /\ Head(s) \in { "-", "+" } THEN Tail(s) ELSE s
  IN  IF body = << >> \/ IndexIn(Head(body), DigitChars) = 0
        THEN NaN
        ELSE Num(IF neg THEN 0 - digitsValue(body, 0) ELSE digitsValue(body, 0))

-----------------------------------------------------------------------------
(* utils.js *)

\* hashUrl: the first 12 hex digits of the MD5 digest of the URL.  URLs are numbered
\* (0 is the empty string); the digest is a fixed one-to-one scrambling of the number.
hashUrl(url) == 7 * url + 3

\* keywords.filter((kw) => lower.includes(kw.toLowerCase())).length
keywordScore(lower, keywords) ==
  Cardinality({ i \in 1..Len(keywords) : includes(lower, toLowerCase(keywords[i])) })

\* an insertion that puts x before the elements of equal score
insertBeforeEqual(sorted, x) ==
  LET p == Cardinality({ i \in 1..Len(sorted) : sorted[i].score > x.score })
  IN  SubSeq(sorted, 1, p) \o << x >> \o SubSeq(sorted, p + 1, Len(sorted))

\* one step of the stable sort with comparator (a, b) => b[1] - a[1]:
\* x goes after every element whose score is at least its own
insertByScore(sorted, x) ==
  LET p == Cardinality({ i \in 1..Len(sorted) : sorted[i].score >= x.score })
  IN  SubSeq(sorted, 1, p) \o << x >> \o SubSeq(sorted, p + 1, Len(sorted))

RECURSIVE sortByScore(_)
sortByScore(list) ==
  IF list = << >> THEN << >>
  ELSE insertByScore(sortByScore(SubSeq(list, 1, Len(list) - 1)), list[Len(list)])

\* the first label whatever its score
bestLabelUnscored(sorted) ==
  IF sorted # << >> THEN sorted[1].label ELSE GeneralLabel

\* best && best[1] > 0 ? best[0] : "general"
bestLabel(sorted) ==
  IF sorted # << >> /\ sorted[1].score > 0 THEN sorted[1].label ELSE GeneralLabel

\* detectSubcategory(text, subcategories); subcategories is Object.entries order
detectSubcategory(text, subcategories) ==
  LET lower  == toLowerCase(text)
      scores == [i \in 1..Len(subcategories) |->
                   [label |-> subcategories[i].label,
                    score |-> keywordScore(lower, subcategories[i].keywords)]]
  IN  bestLabel(sortByScore(scores))

\* a title cut at 60 characters before the ellipsis
metaTitleCutLate(title) ==
  (IF Len(title) > 60 THEN slice0(title, 60) \o Ellipsis ELSE title) \o SiteSuffix

\* generateMeta: article.metaTitle
metaTitleOf(title) ==
  (IF Len(title) > 60 THEN slice0(title, 57) \o Ellipsis ELSE title) \o SiteSuffix

\* generateMeta: article.metaDescription
metaDescriptionOf(summary, title) ==
  LET desc == IF summary # << >> THEN summary ELSE title
  IN  IF Len(desc) > 155 THEN slice0(desc, 152) \o Ellipsis ELSE desc

\* keywords that take the whole list of the taxonomy entry
metaKeywordsUncut(baseKeywords, subcategoryKeywords) ==
  uniq(baseKeywords \o subcategoryKeywords)

\* generateMeta: article.metaKeywords
metaKeywordsOf(baseKeywords, subcategoryKeywords) ==
  uniq(baseKeywords \o slice0(subcategoryKeywords, 4))

\* a reading time without its floor of 2
readingTimeUnfloored(summary, contentHtml) ==
  splitWhitespaceLength(summary \o << " " >> \o contentHtml) \div 200

\* generateMeta: article.readingTime
readingTimeOf(summary, contentHtml) ==
  Max(2, splitWhitespaceLength(summary \o << " " >> \o contentHtml) \div 200)

\* generateMeta(article, baseKeywords): the article with its four derived fields
generateMeta(article, baseKeywords) ==
  [ metaTitle       |-> metaTitleOf(article.title),
    metaDescription |-> metaDescriptionOf(article.summary, article.title),
    metaKeywords    |-> metaKeywordsOf(baseKeywords, article.subcategoryKeywords),
    readingTime     |-> readingTimeOf(article.summary, article.contentHtml) ] @@ article

\* parseArgs(): args is process.argv.slice(2)
parseArgs(args) ==
  LET idx == IndexIn(MaxArticlesFlag, args)
  IN  [ dryRun      |-> \E i \in 1..Len(args) : args[i] = DryRunFlag,
        maxArticles |-> IF idx >= 1 /\ idx + 1 <= Len(args) /\ args[idx + 1] # << >>
                          THEN parseInt(args[idx + 1])
                          ELSE Num(5) ]


-----------------------------------------------------------------------------
(* More string and array primitives *)

Rep(c, n) == [i \in 1..n |-> c]

\* Array.prototype.join
RECURSIVE join(_, _)
join(list, sep) ==
  IF list = << >> THEN << >>
  ELSE IF Len(list) = 1 THEN list[1]
  ELSE list[1] \o sep \o join(Tail(list), sep)

BlankLine == << "\n", "\n" >>

\* s.split("\n\n")
RECURSIVE splitBlankLines(_)
splitBlankLines(s) ==
  LET hits == { p \in 1..(Len(s) - 1) : SubSeq(s, p, p + 1) = BlankLine }
      first == CHOOSE p \in hits : \A m \in hits : p <= m
  IN  IF hits = { } THEN << s >>
      ELSE << SubSeq(s, 1, first - 1) >> \o splitBlankLines(SubSeq(s, first + 2, Len(s)))

\* new Date().toISOString() at clock value t: fixed width, so that lexical order is time order
toISOString(t) == << DigitChars[((t \div 10) % 10) + 1], DigitChars[(t % 10) + 1] >>

isAlnum(c) ==
  \/ IndexIn(c, DigitChars) > 0
  \/ IndexIn(c, SubSeq(UpperChars, 1, 26)) > 0
  \/ IndexIn(c, SubSeq(LowerChars, 1, 26)) > 0

\* slugify's charMap on the letters with diacritics
slugCharMap(c) ==
  CASE c \in { "a~", "a^" } -> "a"
    [] c \in { "A~", "A^" } -> "A"
    [] c = "i^" -> "i"
    [] c = "I^" -> "I"
    [] c = "s," -> "s"
    [] c = "S," -> "S"
    [] c = "t," -> "t"
    [] c = "T," -> "T"
    [] OTHER -> c

isSlugChar(c) == isAlnum(c) \/ c \in WhitespaceChars

\* s.replace(/\s+/g, "-")
RECURSIVE dashWhitespace(_)
dashWhitespace(s) ==
  IF s = << >> THEN << >>
  ELSE IF Head(s) \in WhitespaceChars
         THEN << "-" >> \o dashWhitespace(trimStart(s))
         ELSE << Head(s) >> \o dashWhitespace(Tail(s))

\* slugify(title, { lower: true, strict: true })
slugify(title) ==
  LET mapped == [i \in 1..Len(title) |-> slugCharMap(title[i])]
      strict == SelectSeq(mapped, isSlugChar)
  IN  toLowerCase(dashWhitespace(trim(strict)))

-----------------------------------------------------------------------------
(* Sources and the upstream they are fetched from *)

ZfRss == "https://www.zf.ro/rss"

ProfitRss == "https://www.profit.ro/rss"

NoFilter == << >>

Source(id, name, url, type, filter) ==
  [id |-> id, name |-> name, url |-> url, type |-> type, filter |-> filter]

SOURCES_finance ==
  << Source("bnr", "BNR", "https://www.bnr.ro/RSS_200.aspx", "rss", NoFilter),
     Source("zf", "Ziarul Financiar", ZfRss, "rss", NoFilter),
     Source("profit", "Profit.ro", ProfitRss, "rss", NoFilter),
     Source("wall_street", "Wall-Street.ro", "https://www.wall-street.ro/rss/economie.xml", "rss", NoFilter) >>

SOURCES_insurance ==
  << Source("1asig", "1asig.ro", "https://www.1asig.ro/rss/", "rss", NoFilter),
     Source("zf_asig", "ZF Asigurari", ZfRss, "rss", Filter_zf_asig),
     Source("asf", "ASF Romania", "https://asfromania.ro/ro/a/1/informatii-publice/comunicate", "scrape", NoFilter) >>

SOURCES_tech ==
  << Source("arenait", "ArenaIT.ro", "https://arenait.ro/feed/", "rss", NoFilter),
     Source("go4it", "Go4IT.ro", "https://www.go4it.ro/feed/", "rss", NoFilter),
     Source("playtech", "Playtech.ro", "https://playtech.ro/feed/", "rss", NoFilter),
     Source("techradar", "TechRadar", "https://www.techradar.com/rss", "rss", Filter_techradar),
     Source("theverge", "The Verge", "https://www.theverge.com/rss/reviews/index.xml", "rss", NoFilter) >>

SOURCES_investitii ==
  << Source("reuters", "Reuters Business", "https://www.reutersagency.com/feed/", "rss", NoFilter),
     Source("investing_ro", "Investing.com RO", "https://ro.investing.com/rss/news.rss", "rss", NoFilter),
     Source("ri_biz", "Romania Insider", "https://www.romania-insider.com/feed", "rss", Filter_ri_biz),
     Source("zf", "Ziarul Financiar", ZfRss, "rss", Filter_zf_inv),
     Source("br", "Business Review", "https://business-review.eu/feed", "rss", Filter_br),
     Source("profit", "Profit.ro", ProfitRss, "rss", Filter_profit_inv) >>

-----------------------------------------------------------------------------
(* Bounds of the model *)

\* number of agent processes started in one behaviour
MaxRuns == 2

\* each agent fetches the first MaxSources sources of its SOURCES list
MaxSources == 2

-----------------------------------------------------------------------------
(* The upstream: what the feeds and pages answer.  URLs are numbered; 0 is a
   missing link. *)

Item(title, link, pubDate, contentSnippet) ==
  [title |-> title, link |-> link, pubDate |-> pubDate,
   contentSnippet |-> contentSnippet, content |-> << >>]

ItemA == Item(<< "E", "T", "F" >>, 1, << "2" >>, << >>)

ItemB == Item(<< " ", "e", "t", "f", " " >>, 2, << "1", "0" >>, << "R", "C", "A" >>)

ItemC == Item(<< " " >>, 3, << "3" >>, << >>)

ItemD == Item(<< "B", "V", "B" >>, 0, << "4" >>, << >>)

\* the items a feed URL delivers when it answers
Upstream(url) ==
  IF url \in { ZfRss, ProfitRss } THEN << ItemD, ItemA, ItemB >> ELSE << ItemA, ItemC, ItemA >>

\* the rows of a scraped listing page: the first anchor's text and href, the first summary
UpstreamRows(url) ==
  << [text |-> << "R", "C", "A" >>, href |-> 2, absolute |-> TRUE, summary |-> << >>],
     [text |-> << >>, href |-> 1, absolute |-> FALSE, summary |-> << >>] >>

\* an article page: unreachable, or the <p> texts under each container it has
PageOf(url) ==
  IF url = 2
    THEN [ok |-> TRUE,
          blocks |-> << [selector |-> ".entry-content",
                         paras |-> << Rep("x", 31), Rep("y", 30), Rep("z", 33),
                                      << " " >> \o Rep("w", 33) >>] >>]
    ELSE [ok |-> FALSE, blocks |-> << >>]

-----------------------------------------------------------------------------
(* The agents *)

SOURCES(a) ==
  CASE a = "finance"    -> SOURCES_finance
    [] a = "insurance"  -> SOURCES_insurance
    [] a = "tech"       -> SOURCES_tech
    [] a = "investitii" -> SOURCES_investitii

SourcesOf(a) == slice0(SOURCES(a), MaxSources)

SUBCATEGORIES(a) ==
  CASE a = "finance"    -> SUBCATEGORIES_finance
    [] a = "insurance"  -> SUBCATEGORIES_insurance
    [] a = "tech"       -> SUBS_tech
    [] a = "investitii" -> SUBS_investitii

BaseKeywords(a) ==
  CASE a = "finance"    -> BaseKeywords_finance
    [] a = "insurance"  -> BaseKeywords_insurance
    [] a = "tech"       -> BaseKeywords_tech
    [] a = "investitii" -> BaseKeywords_investitii

\* (feed.items || []).slice(0, N)
FeedLimit(a) ==
  CASE a = "finance" -> 10 [] a = "insurance" -> 15 [] a = "tech" -> 15 [] a = "investitii" -> 20

\* SUBCATEGORIES[subcategory] || []
keywordsOfLabel(subcategories, label) ==
  IF \E i \in 1..Len(subcategories) : subcategories[i].label = label
    THEN subcategories[CHOOSE i \in 1..Len(subcategories) : subcategories[i].label = label].keywords
    ELSE << >>

\* the filter of fetchRss / fetchFeed: some filter keyword occurs in title + " " + snippet
passesFilter(a, filter, item) ==
  LET text == toLowerCase(item.title \o << " " >> \o item.contentSnippet)
  IN  \E i \in 1..Len(filter) :
        includes(text, IF a = "tech" THEN filter[i] ELSE toLowerCase(filter[i]))

\* the entry fetchRss / fetchFeed makes of one feed item, at clock value now
entryOfItem(a, source, item, now) ==
  [ title      |-> trim(item.title),
    url        |-> item.link,
    published  |-> IF item.pubDate # << >> THEN item.pubDate ELSE toISOString(now),
    summary    |-> slice0(IF a = "finance" /\ item.contentSnippet = << >>
                            THEN item.content ELSE item.contentSnippet, 500),
    sourceId   |-> source.id,
    sourceName |-> source.name ]

\* fetchRss (finance, insurance) and fetchFeed (tech, investitii) on an answering feed
fetchRss(a, source, items, now) ==
  LET first == slice0(items, FeedLimit(a))
      pass(item) == source.filter = NoFilter \/ passesFilter(a, source.filter, item)
      kept  == SelectSeq(first, pass)
  IN  [i \in 1..Len(kept) |-> entryOfItem(a, source, kept[i], now)]

\* scrapePage (insurance) on an answering page: rows with a title and a link
scrapePage(source, rows, now) ==
  LET hasBoth(row) == trim(row.text) # << >> /\ row.href # 0
      kept == SelectSeq(slice0(rows, 10), hasBoth)
  IN  [i \in 1..Len(kept) |->
        [ title      |-> trim(kept[i].text),
          url        |-> kept[i].href,
          published  |-> toISOString(now),
          summary    |-> slice0(trim(kept[i].summary), 500),
          sourceId   |-> source.id,
          sourceName |-> source.name ]]

\* a fetch whose failure is not contained: the entries come whatever the request did
fetchSourceUncaught(a, source, answers, now) ==
  IF source.type = "rss" THEN fetchRss(a, source, Upstream(source.url), now)
  ELSE scrapePage(source, UpstreamRows(source.url), now)

\* what fetching one source yields: its entries, or none when the request or the parse fails
fetchSource(a, source, answers, now) ==
  IF ~answers THEN << >>
  ELSE IF source.type = "rss" THEN fetchRss(a, source, Upstream(source.url), now)
  ELSE scrapePage(source, UpstreamRows(source.url), now)

\* the selectors each agent's extractor tries, in order
Selectors(a) ==
  CASE a = "finance" ->
         << ".entry-content", ".article-content", ".article-body", ".post-content", "article" >>
    [] a = "insurance" ->
         << ".entry-content", ".article-content", ".article-body", "article" >>
    [] a \in { "tech", "investitii" } ->
         << ".entry-content", ".article-content", ".post-content", "article" >>

\* the cap on the extracted body
ContentCap(a) ==
  CASE a = "finance" -> 2000 [] a = "insurance" -> 2000 [] a = "tech" -> 2500 [] a = "investitii" -> 3000

longEnough(t) == Len(t) > 30

\* the paragraphs kept under the first element matching sel: trimmed, longer than 30
parasOf(page, sel) ==
  LET b == page.blocks[CHOOSE i \in 1..Len(page.blocks) : page.blocks[i].selector = sel]
      trimmed == [i \in 1..Len(b.paras) |-> trim(b.paras[i])]
  IN  SelectSeq(trimmed, longEnough)

\* the acceptance test of one selector's paragraphs
accepted(a, paras) ==
  IF a \in { "finance", "tech" }
    THEN Len(join(paras, BlankLine)) > 100
    ELSE Len(join(paras, << " " >>)) > 100

RECURSIVE firstAccepted(_, _, _)
firstAccepted(a, page, sels) ==
  IF sels = << >> THEN << >>
  ELSE IF /\ \E i \in 1..Len(page.blocks) : page.blocks[i].selector = Head(sels)
          /\ accepted(a, parasOf(page, Head(sels)))
         THEN slice0(join(parasOf(page, Head(sels)), BlankLine), ContentCap(a))
         ELSE firstAccepted(a, page, Tail(sels))

\* an extractor that hands the error's text back as the body
scrapeContentErrorText(a, url) ==
  IF PageOf(url).ok THEN firstAccepted(a, PageOf(url), Selectors(a)) ELSE Rep("e", 5)

\* scrapeContent (finance, insurance) and scrape (tech, investitii): "" on any error
scrapeContent(a, url) ==
  IF PageOf(url).ok THEN firstAccepted(a, PageOf(url), Selectors(a)) ELSE << >>

\* detectCities (investitii): the city groups one of whose names occurs in the text
detectCities(text) ==
  LET lower == toLowerCase(text)
      found(c) == \E i \in 1..Len(c.keywords) : includes(lower, toLowerCase(c.keywords[i]))
      hit == SelectSeq(CITIES, found)
  IN  [i \in 1..Len(hit) |-> hit[i].label]

\* extractRating (tech): "<n>/10" for the first "<digits>/10" in the text with n <= 10
extractRating(t) ==
  LET isDigit(i) == i >= 1 /\ i <= Len(t) /\ IndexIn(t[i], DigitChars) > 0
      starts == { i \in 1..Len(t) :
                    /\ isDigit(i)
                    /\ \E e \in i..Len(t) :
                         /\ \A m \in i..e : isDigit(m)
                         /\ e + 3 <= Len(t)
                         /\ SubSeq(t, e + 1, e + 3) = << "/", "1", "0" >> }
  IN  IF starts = { } THEN << >>
      ELSE LET i == CHOOSE s \in starts : \A o \in starts : s <= o
               e == CHOOSE e \in i..Len(t) : (\A m \in i..e : isDigit(m)) /\ ~isDigit(e + 1)
               v == digitsValue(SubSeq(t, i, e), 0)
           IN  IF v <= 10 THEN SubSeq(t, i, e) \o << "/", "1", "0" >> ELSE << >>

\* the article run() makes of an accepted entry, before generateMeta
articleOfEntry(a, entry, dry) ==
  LET text == entry.title \o << " " >> \o entry.summary
      sub  == detectSubcategory(text, SUBCATEGORIES(a))
      body == IF dry THEN << >> ELSE scrapeContent(a, entry.url)
      base == [ title               |-> entry.title,
                slug                |-> slice0(slugify(entry.title), 80),
                url                 |-> entry.url,
                category            |-> CategoryOf(a),
                subcategory         |-> sub,
                subcategoryKeywords |-> keywordsOfLabel(SUBCATEGORIES(a), sub),
                published           |-> entry.published,
                summary             |-> entry.summary,
                contentHtml         |-> body,
                sourceName          |-> entry.sourceName,
                author              |-> "Echipa FinRo" ]
  IN  CASE a = "tech" ->
             [rating |-> IF dry THEN << >>
                         ELSE extractRating(entry.summary \o << " " >> \o body)] @@ base
        [] a = "investitii" -> [cityTags |-> detectCities(text)] @@ base
        [] OTHER -> base

-----------------------------------------------------------------------------
(* Files *)

NoFile == [kind |-> "absent"]

Json(value) == [kind |-> "json", value |-> value]

\* a function with one more (or one overwritten) entry: fs.writeFileSync(key, value)
writeFile(dir, key, value) == (key :> value) @@ dir

\* a loadSeen that never finds the file
loadSeenMissing(file) == << >>

\* the JSON type of data.hashes: an array unless the file's value says otherwise
hashesType(data) == IF "hashesType" \in DOMAIN data THEN data.hashesType ELSE "array"

\* loadSeen(filename): the array of hashes the Set is built from. No file, a file
\* that does not parse, null (reading .hashes throws) and a value without hashes give
\* the empty set; new Set(data.hashes || []) iterates an array and a string, and
\* throws, caught, on any other truthy value
loadSeen(file) ==
  IF file.kind = "json" /\ "hashes" \in DOMAIN file.value
       /\ hashesType(file.value) \in { "array", "string" }
    THEN uniq(file.value.hashes)
    ELSE << >>

\* a save that also records the time of the run in the set
saveSeenStamped(hashes, now) ==
  Json([hashes |-> Append(hashes, now), updated |-> toISOString(now)])

\* saveSeen(filename, hashes): the file's new content
saveSeen(hashes, now) == Json([hashes |-> hashes, updated |-> toISOString(now)])

\* saveArticleMeta(article, hashId): the record written to article_<hashId>.json
saveArticleMeta(article, hashId) ==
  LET meta == [ title            |-> article.title,
                slug             |-> article.slug,
                category         |-> article.category,
                subcategory      |-> article.subcategory,
                meta_title       |-> article.metaTitle,
                meta_description |-> article.metaDescription,
                meta_keywords    |-> article.metaKeywords,
                author           |-> article.author,
                published        |-> article.published,
                reading_time     |-> article.readingTime,
                source           |-> article.sourceName,
                hash_id          |-> hashId,
                url              |-> << article.category, article.slug >> ]
  IN  Json(IF "rating" \in DOMAIN article /\ article.rating # << >>
             THEN [rating |-> article.rating] @@ meta ELSE meta)

\* the record the investitii agent writes itself
investitiiMeta(ar, hashId) ==
  Json([ title            |-> ar.title,
         slug             |-> ar.slug,
         category         |-> "investitii",
         subcategory      |-> ar.subcategory,
         city_tags        |-> ar.cityTags,
         meta_title       |-> ar.metaTitle,
         meta_description |-> ar.metaDescription,
         author           |-> ar.author,
         published        |-> ar.published,
         reading_time     |-> ar.readingTime,
         source           |-> ar.sourceName,
         hash_id          |-> hashId,
         url              |-> << "investitii", ar.slug >> ])

recordOf(a, article, hashId) ==
  IF a = "investitii" THEN investitiiMeta(article, hashId) ELSE saveArticleMeta(article, hashId)

nonBlank(p) == trim(p) # << >>

\* generateArticleHtml: the fields of the article the page embeds
generateArticleHtml(a, article) ==
  [ title       |-> article.metaTitle,
    description |-> article.metaDescription,
    keywords    |-> IF a = "investitii" THEN << >> ELSE article.metaKeywords,
    canonical   |-> << article.category, article.slug >>,
    headline    |-> article.title,
    section     |-> article.subcategory,
    author      |-> article.author,
    published   |-> article.published,
    readingTime |-> article.readingTime,
    lead        |-> article.summary,
    paragraphs  |-> SelectSeq(splitBlankLines(article.contentHtml), nonBlank),
    sourceUrl   |-> article.url,
    sourceName  |-> article.sourceName,
    ratingBadge |-> IF a # "investitii" /\ "rating" \in DOMAIN article
                      THEN article.rating ELSE << >>,
    cityBadges  |-> IF a = "investitii" THEN article.cityTags ELSE << >> ]

\* fs.readdirSync(DATA_DIR).filter(startsWith("article_")): the names, in ascending order
RECURSIVE readdir(_)
readdir(names) ==
  IF names = { } THEN << >>
  ELSE LET least == CHOOSE n \in names : \A m \in names : n <= m
       IN  << least >> \o readdir(names \ { least })

\* a.published || ""
publishedOf(a) == IF "published" \in DOMAIN a THEN a.published ELSE << >>

\* one step of articles.sort((a, b) => (b.published || "").localeCompare(a.published || "")):
\* x goes after every element published no earlier than it
insertByPublished(sorted, x) ==
  LET p == Cardinality({ i \in 1..Len(sorted) :
                           localeCompare(publishedOf(x), publishedOf(sorted[i])) <= 0 })
  IN  SubSeq(sorted, 1, p) \o << x >> \o SubSeq(sorted, p + 1, Len(sorted))

RECURSIVE sortByPublished(_)
sortByPublished(list) ==
  IF list = << >> THEN << >>
  ELSE insertByPublished(sortByPublished(SubSeq(list, 1, Len(list) - 1)), list[Len(list)])

\* the records updateIndex keeps: parsed, of the category, in directory order
matching(dir, category) ==
  LET names == readdir(DOMAIN dir)
      ofCategory(n) == /\ dir[n].kind = "json"
                       /\ "category" \in DOMAIN dir[n].value
                       /\ dir[n].value.category = category
      kept == SelectSeq(names, ofCategory)
  IN  [i \in 1..Len(kept) |-> dir[kept[i]].value]

\* an updateIndex whose total counts the listed articles only
updateIndexListedTotal(dir, category, now) ==
  LET articles == slice0(sortByPublished(matching(dir, category)), 50)
  IN  [ index |-> Json([ category |-> category,
                         total    |-> Len(articles),
                         updated  |-> toISOString(now),
                         articles |-> articles ]),
        total |-> Len(articles) ]

\* updateIndex(category): the index written and the count returned
updateIndex(dir, category, now) ==
  LET articles == sortByPublished(matching(dir, category))
  IN  [ index |-> Json([ category |-> category,
                         total    |-> Len(articles),
                         updated  |-> toISOString(now),
                         articles |-> slice0(articles, 50) ]),
        total |-> Len(articles) ]

-----------------------------------------------------------------------------
(* The command lines the agents are started with *)

Argvs ==
  { << >>,
    << DryRunFlag >>,
    << MaxArticlesFlag, << "1" >> >>,
    << MaxArticlesFlag, << "0" >> >>,
    << MaxArticlesFlag, << "-", "1" >> >>,
    << MaxArticlesFlag, << "a", "b", "c" >> >>,
    << MaxArticlesFlag >> }

\* o.maxArticles as each agent's run() uses it
effectiveMax(a, parsed) ==
  IF a = "investitii" /\ ~truthy(parsed) THEN Num(8) ELSE parsed

-----------------------------------------------------------------------------
(* The agent process *)

\* agent a has not been started yet
notStarted(a) ==
  /\ pc = "idle"
  /\ agent = a
  /\ argv = << >>
  /\ dryRun = FALSE
  /\ maxArticles = Num(5)
  /\ loaded = << >>
  /\ seen = << >>
  /\ srcIdx = 0
  /\ failed = { }
  /\ allEntries = << >>
  /\ j = 0
  /\ newArticles = << >>
  /\ k = 0
  /\ exitCode = 0
  /\ runs = 0

\* a data directory without article files
emptyData(files) ==
  /\ seenFile = [ag \in Agents |-> NoFile]
  /\ articleFiles = files
  /\ docs = [c \in Categories |-> << >>]
  /\ indexFile = [c \in Categories |-> NoFile]

\* there is no second process
NoProcess == [pc |-> "none"]

InitRun(a) ==
  /\ notStarted(a)
  /\ emptyData(<< >>)
  /\ call = [fn |-> "none"]
  /\ ret = [fn |-> "none"]
  /\ other = NoProcess

\* a run that persists whatever the flag says
afterLoopPersisting(dry, arts) == IF arts = << >> THEN "save" ELSE "persist"

\* where run() goes when the accept loop ends
afterLoop(dry, arts) == IF dry THEN "done" ELSE IF arts = << >> THEN "save" ELSE "persist"

\* node agent_<a>.js args: parseArgs, loadSeen
StartRun(a, args) ==
  /\ pc \in { "idle", "done", "fatal" }
  /\ runs < MaxRuns
  /\ pc' = "fetch"
  /\ agent' = a
  /\ argv' = args
  /\ dryRun' = parseArgs(args).dryRun
  /\ maxArticles' = effectiveMax(a, parseArgs(args).maxArticles)
  /\ loaded' = loadSeen(seenFile[a])
  /\ seen' = loadSeen(seenFile[a])
  /\ srcIdx' = 0
  /\ failed' = { }
  /\ allEntries' = << >>
  /\ j' = 0
  /\ newArticles' = << >>
  /\ k' = 0
  /\ exitCode' = 0
  /\ runs' = runs + 1
  /\ UNCHANGED << diskVars, call, ret, other >>

\* a fetch loop that starts over from the first source when a source fails
FetchSourceRestarting(answers) ==
  /\ pc = "fetch"
  /\ LET entries == allEntries \o fetchSource(agent, SourcesOf(agent)[srcIdx + 1], answers, runs)
         last    == srcIdx + 1 = Len(SourcesOf(agent))
     IN  /\ allEntries' = IF answers THEN entries ELSE << >>
         /\ srcIdx' = IF answers THEN srcIdx + 1 ELSE 0
         /\ failed' = IF answers THEN failed ELSE failed \cup { srcIdx + 1 }
         /\ pc' = IF ~answers \/ ~last THEN "fetch"
                  ELSE IF entries = << >> THEN afterLoop(dryRun, << >>) ELSE "process"
  /\ UNCHANGED << agent, argv, dryRun, maxArticles, loaded, seen, j, newArticles, k,
                  exitCode, runs, diskVars, call, ret, other >>

\* one iteration of the fetch loop: the source answers or fails
FetchSource(answers) ==
  /\ pc = "fetch"
  /\ LET entries == allEntries \o fetchSource(agent, SourcesOf(agent)[srcIdx + 1], answers, runs)
         last    == srcIdx + 1 = Len(SourcesOf(agent))
     IN  /\ allEntries' = entries
         /\ srcIdx' = srcIdx + 1
         /\ failed' = IF answers THEN failed ELSE failed \cup { srcIdx + 1 }
         /\ pc' = IF ~last THEN "fetch"
                  ELSE IF entries = << >> THEN afterLoop(dryRun, << >>) ELSE "process"
  /\ UNCHANGED << agent, argv, dryRun, maxArticles, loaded, seen, j, newArticles, k,
                  exitCode, runs, diskVars, call, ret, other >>

\* the entry the accept loop looks at next
entry == allEntries[j + 1]

\* a test that looks at the fingerprint only
skippedIfSeen(e, seenHashes) ==
  \E i \in 1..Len(seenHashes) : seenHashes[i] = hashUrl(e.url)

\* if (!entry.title || !entry.url) continue;  if (seen.has(hash)) continue;
skipped(e, seenHashes) ==
  \/ e.title = << >>
  \/ e.url = 0
  \/ \E i \in 1..Len(seenHashes) : seenHashes[i] = hashUrl(e.url)

\* an add that leaves the set as it was
seenAddLost(seenHashes, hash) == seenHashes

\* seen.add(hash): a Set keeps one copy, in insertion order
seenAdd(seenHashes, hash) ==
  IF \E i \in 1..Len(seenHashes) : seenHashes[i] = hash THEN seenHashes
  ELSE Append(seenHashes, hash)

\* a cap test that lets one article more through
breaksLate(count, max) == ~max.nan /\ count > max.val

\* if (newArticles.length >= maxArticles) break;
breaks(count, max) == atLeast(count, max)

\* an accept loop whose cap counts the entries examined, not the articles accepted
ProcessEntryCountingExamined ==
  /\ pc = "process"
  /\ LET accept == ~skipped(entry, seen)
         hash   == hashUrl(entry.url)
         arts   == IF accept
                     THEN Append(newArticles,
                                 [article |-> generateMeta(articleOfEntry(agent, entry, dryRun),
                                                           BaseKeywords(agent)),
                                  hash |-> hash])
                     ELSE newArticles
         stop   == breaks(j + 1, maxArticles) \/ j + 1 = Len(allEntries)
     IN  /\ newArticles' = arts
         /\ seen' = IF accept THEN seenAdd(seen, hash) ELSE seen
         /\ j' = j + 1
         /\ pc' = IF stop THEN afterLoop(dryRun, arts) ELSE "process"
  /\ UNCHANGED << agent, argv, dryRun, maxArticles, loaded, srcIdx, failed, allEntries, k,
                  exitCode, runs, diskVars, call, ret, other >>

\* one iteration of the accept loop
ProcessEntry ==
  /\ pc = "process"
  /\ LET accept == ~skipped(entry, seen)
         hash   == hashUrl(entry.url)
         arts   == IF accept
                     THEN Append(newArticles,
                                 [article |-> generateMeta(articleOfEntry(agent, entry, dryRun),
                                                           BaseKeywords(agent)),
                                  hash |-> hash])
                     ELSE newArticles
         stop   == (accept /\ breaks(Len(arts), maxArticles)) \/ j + 1 = Len(allEntries)
     IN  /\ newArticles' = arts
         /\ seen' = IF accept THEN seenAdd(seen, hash) ELSE seen
         /\ j' = j + 1
         /\ pc' = IF stop THEN afterLoop(dryRun, arts) ELSE "process"
  /\ UNCHANGED << agent, argv, dryRun, maxArticles, loaded, srcIdx, failed, allEntries, k,
                  exitCode, runs, diskVars, call, ret, other >>

\* the article the persistence loop writes next
current == newArticles[k + 1]

\* one iteration of the persistence loop: the page, then the record
WriteArticle ==
  /\ pc = "persist"
  /\ docs' = [docs EXCEPT ![CategoryOf(agent)] =
                writeFile(@, current.article.slug, generateArticleHtml(agent, current.article))]
  /\ articleFiles' = writeFile(articleFiles, current.hash,
                               recordOf(agent, current.article, current.hash))
  /\ k' = k + 1
  /\ pc' = IF k + 1 = Len(newArticles) THEN "save" ELSE "persist"
  /\ UNCHANGED << agent, argv, dryRun, maxArticles, loaded, seen, srcIdx, failed, allEntries,
                  j,
                  newArticles, exitCode, runs, seenFile, indexFile, call, ret, other >>

\* a handler that logs the error and lets the process end normally
fatalExitingZero ==
  /\ pc' = "fatal"
  /\ exitCode' = 0
  /\ UNCHANGED << agent, argv, dryRun, maxArticles, loaded, seen, srcIdx, failed, allEntries,
                  j,
                  newArticles, k, runs, call, ret, other >>

\* run().catch: log, process.exit(1)
fatal ==
  /\ pc' = "fatal"
  /\ exitCode' = 1
  /\ UNCHANGED << agent, argv, dryRun, maxArticles, loaded, seen, srcIdx, failed, allEntries,
                  j,
                  newArticles, k, runs, call, ret, other >>

\* writing the page throws
WritePageFails ==
  /\ pc = "persist"
  /\ fatal
  /\ UNCHANGED diskVars

\* a failed record write that is logged and does not stop the persistence loop
WriteRecordFailsCaught ==
  /\ pc = "persist"
  /\ docs' = [docs EXCEPT ![CategoryOf(agent)] =
                writeFile(@, current.article.slug, generateArticleHtml(agent, current.article))]
  /\ k' = k + 1
  /\ pc' = IF k + 1 = Len(newArticles) THEN "save" ELSE "persist"
  /\ UNCHANGED << agent, argv, dryRun, maxArticles, loaded, seen, srcIdx, failed, allEntries,
                  j,
                  newArticles, exitCode, runs, seenFile, articleFiles, indexFile, call, ret, other >>

\* the page is written and writing the record throws
WriteRecordFails ==
  /\ pc = "persist"
  /\ docs' = [docs EXCEPT ![CategoryOf(agent)] =
                writeFile(@, current.article.slug, generateArticleHtml(agent, current.article))]
  /\ fatal
  /\ UNCHANGED << seenFile, articleFiles, indexFile >>

\* a save that writes the fingerprints the run loaded and forgets those it added
SaveSeenForgetting ==
  /\ pc = "save"
  /\ seenFile' = [seenFile EXCEPT ![agent] = saveSeen(loaded, runs)]
  /\ pc' = "index"
  /\ UNCHANGED << agent, argv, dryRun, maxArticles, loaded, seen, srcIdx, failed, allEntries,
                  j,
                  newArticles, k, exitCode, runs, articleFiles, docs, indexFile, call, ret, other >>

\* a save that keeps what the file holds and adds the set in memory to it
SaveSeenMerging ==
  /\ pc = "save"
  /\ seenFile' = [seenFile EXCEPT
                    ![agent] = saveSeen(uniq(loadSeen(seenFile[agent]) \o seen), runs)]
  /\ pc' = "index"
  /\ UNCHANGED << agent, argv, dryRun, maxArticles, loaded, seen, srcIdx, failed, allEntries,
                  j,
                  newArticles, k, exitCode, runs, articleFiles, docs, indexFile, call, ret, other >>

\* saveSeen(seen file, seen)
SaveSeen ==
  /\ pc = "save"
  /\ seenFile' = [seenFile EXCEPT ![agent] = saveSeen(seen, runs)]
  /\ pc' = "index"
  /\ UNCHANGED << agent, argv, dryRun, maxArticles, loaded, seen, srcIdx, failed, allEntries,
                  j,
                  newArticles, k, exitCode, runs, articleFiles, docs, indexFile, call, ret, other >>

\* saveSeen throws
SaveSeenFails ==
  /\ pc = "save"
  /\ fatal
  /\ UNCHANGED diskVars

\* updateIndex(category), then the run completes
UpdateIndex ==
  /\ pc = "index"
  /\ indexFile' = [indexFile EXCEPT ![CategoryOf(agent)] =
                     updateIndex(articleFiles, CategoryOf(agent), runs).index]
  /\ pc' = "done"
  /\ UNCHANGED << agent, argv, dryRun, maxArticles, loaded, seen, srcIdx, failed, allEntries,
                  j,
                  newArticles, k, exitCode, runs, seenFile, articleFiles, docs, call, ret, other >>

\* updateIndex throws
UpdateIndexFails ==
  /\ pc = "index"
  /\ fatal
  /\ UNCHANGED diskVars

\* the steps of a run once it has started
RunStep ==
  \/ \E answers \in BOOLEAN : FetchSource(answers)
  \/ ProcessEntry
  \/ WriteArticle
  \/ SaveSeen
  \/ UpdateIndex

\* one agent, chosen at the start, is run again and again with any command line
Init == \E a \in Agents : InitRun(a)

Next ==
  \/ \E args \in Argvs : StartRun(agent, args)
  \/ RunStep

\* sequential runs of one agent on a file system whose writes succeed
Spec == Init /\ [][Next]_vars

\* a write of the persistence phase throws
Fault ==
  \/ WritePageFails
  \/ WriteRecordFails
  \/ SaveSeenFails
  \/ UpdateIndexFails

NextFaults == Next \/ Fault

\* sequential runs of one agent on a file system whose writes may fail
SpecFaults == Init /\ [][NextFaults]_vars

\* a run is under way
running == pc \in { "fetch", "process", "persist", "save", "index" }

\* a started run is not suspended forever: every request answers or times out, and
\* the event loop then resumes run(). This is weak fairness of RunStep, which is
\* enabled exactly while a run is under way
SpecLive == SpecFaults /\ ([]<>(~running) \/ []<><<RunStep>>_<< pc, srcIdx, j, k >>)

\* the command lines of the scheduled and the manual runs
CronArgvs == { << >>, << DryRunFlag >>, << MaxArticlesFlag, << "1" >> >> }

NextShared ==
  \/ \E a \in Agents, args \in CronArgvs : StartRun(a, args)
  \/ RunStep

\* sequential runs of the four agents, which share DATA_DIR
SpecShared == InitRun("finance") /\ [][NextShared]_vars

-----------------------------------------------------------------------------
(* Direct calls of the utility functions, on arguments drawn from bounded sets *)

\* no agent runs and the data directory is empty: only call and ret change
quiet ==
  notStarted("finance") /\ emptyData(<< >>) /\ ret = [fn |-> "none"] /\ other = NoProcess

returns(fn, value) ==
  /\ call.fn = fn
  /\ ret.fn = "none"
  /\ ret' = [fn |-> fn, value |-> value]

RECURSIVE SeqsUpTo(_, _)
\* the sequences over S of length at most n
SeqsUpTo(S, n) ==
  IF n = 0 THEN { << >> }
  ELSE LET shorter == SeqsUpTo(S, n - 1)
       IN  shorter \cup { Append(s, x) : s \in shorter, x \in S }

\* longest text classified
MaxTextLen == 3

\* most labels of a drawn taxonomy
MaxLabels == 2

TextChars == { "a", "A", "b", " " }

KeywordLists ==
  { << >>,
    << << "a" >> >>,
    << << "B" >> >>,
    << << "a", "b" >>, << "A" >> >>,
    << << "b", " " >>, << "b" >>, << "B", "A" >> >> }

LabelNames == << "credite", "taxe", "pensii", "economisire" >>

\* the taxonomies with at most MaxLabels labels, declared in the order of LabelNames
DrawnTaxonomies ==
  { [i \in 1..Len(ks) |-> [label |-> LabelNames[i], keywords |-> ks[i]]] :
      ks \in SeqsUpTo(KeywordLists, MaxLabels) }

ScenarioTaxonomy ==
  << [label |-> "credite",
      keywords |-> << << "c","r","e","d","i","t" >>, << "d","o","b","a^","n","d","a~" >> >>],
     [label |-> "taxe",
      keywords |-> << << "A","N","A","F" >>, << "T","V","A" >> >>] >>

\* "BNR anunta o noua dobanda de referinta", with its diacritics
ScenarioText ==
  << "B","N","R"," ","a","n","u","n","t,","a~"," ","o"," ","n","o","u","a~"," ",
     "d","o","b","a^","n","d","a~"," ","d","e"," ","r","e","f","e","r","i","n","t,","a~" >>

ClassifyCalls ==
  { [fn |-> "detectSubcategory", text |-> t, subcategories |-> x] :
      t \in SeqsUpTo(TextChars, MaxTextLen), x \in DrawnTaxonomies }
  \cup
  { [fn |-> "detectSubcategory", text |-> t, subcategories |-> x] :
      t \in { ScenarioText, << "T","V","A"," ","E","T","F" >>, << "x" >> },
      x \in { ScenarioTaxonomy, SUBCATEGORIES_finance, SUBCATEGORIES_insurance,
              SUBS_tech, SUBS_investitii } }

InitClassify == quiet /\ call \in ClassifyCalls

CallDetectSubcategory ==
  /\ returns("detectSubcategory", detectSubcategory(call.text, call.subcategories))
  /\ UNCHANGED << runVars, diskVars, call, other >>

\* detectSubcategory called on every drawn text and taxonomy
SpecClassify == InitClassify /\ [][CallDetectSubcategory]_vars

\* a text of n characters without whitespace, no two neighbours alike
Fill(n) == [i \in 1..n |-> << "p", "q", "r" >>[(i % 3) + 1]]

\* a text of n one-letter words
Words(n) == [i \in 1..(IF n = 0 THEN 0 ELSE 2 * n - 1) |-> IF i % 2 = 1 THEN "w" ELSE " "]

TitleChoices == { Fill(n) : n \in { 0, 1, 57, 59, 60, 61, 62, 80, 156 } }

SummaryChoices ==
  { Fill(n) : n \in { 0, 1, 152, 154, 155, 156, 157, 500 } }
  \cup { << " " >>, << " ", "a", " ", "\n", "b", " " >>, Words(200) }

BodyChoices == { Words(n) : n \in { 0, 1, 197, 198, 199, 200, 398, 399, 400, 598, 599 } }

KeywordChoices ==
  { << >>, SUBCATEGORIES_finance[1].keywords, SUBCATEGORIES_finance[2].keywords,
    << << "2","0","2","5" >>, << "c","r","e","d","i","t" >>, << "2","0","2","5" >> >> }

MetaCalls ==
  { [fn |-> "generateMeta",
     article |-> [title |-> t, summary |-> s, contentHtml |-> b, subcategoryKeywords |-> kw],
     baseKeywords |-> base] :
      t \in TitleChoices, s \in SummaryChoices, b \in BodyChoices, kw \in KeywordChoices,
      base \in { << >>, BaseKeywords_finance } }

InitMeta == quiet /\ call \in MetaCalls

CallGenerateMeta ==
  /\ returns("generateMeta", generateMeta(call.article, call.baseKeywords))
  /\ UNCHANGED << runVars, diskVars, call, other >>

\* generateMeta called on every drawn article
SpecMeta == InitMeta /\ [][CallGenerateMeta]_vars

\* most article files in the drawn data directory
MaxFiles == 52

CategoryShapes == { "all", "alternate", "third" }

PublishedShapes == { "ascending", "descending", "constant", "unpadded", "cyclic", "missing" }

BadShapes == { "none", "corrupt", "uncategorised" }

decimal(n) == IF n < 10 THEN << DigitChars[n + 1] >> ELSE toISOString(n)

\* the record in file number i of a directory drawn for category c
drawnRecord(i, c, shape) ==
  LET cat == CASE shape.category = "all"       -> c
               [] shape.category = "alternate" -> IF i % 2 = 1 THEN c ELSE "other"
               [] shape.category = "third"     -> IF i % 3 = 0 THEN "other" ELSE c
      pub == CASE shape.published = "ascending"  -> toISOString(i)
               [] shape.published = "descending" -> toISOString(99 - i)
               [] shape.published = "constant"   -> << "0", "5" >>
               [] shape.published = "unpadded"   -> decimal(i)
               [] shape.published = "cyclic"     -> toISOString(i % 3)
               [] shape.published = "missing"    -> toISOString(i % 4)
      rec == [category |-> cat, hash_id |-> i, published |-> pub]
  IN  IF shape.bad = "corrupt" /\ i % 5 = 0 THEN [kind |-> "corrupt"]
      ELSE IF shape.bad = "uncategorised" /\ i % 5 = 0
             THEN Json([hash_id |-> i, published |-> pub])
      ELSE IF shape.published = "missing" /\ i % 4 = 0
             THEN Json([category |-> cat, hash_id |-> i])
             ELSE Json(rec)

\* 60 records of the category and 10 of others
ScenarioDirectory(c) ==
  [i \in 1..70 |-> Json([category |-> IF i % 7 = 0 THEN "other" ELSE c,
                         hash_id |-> i, published |-> toISOString((i * 37) % 71)])]

DrawnDirectories(c) ==
  { [i \in 1..n |-> drawnRecord(i, c, [category |-> cs, published |-> ps, bad |-> bs])] :
      n \in 0..MaxFiles, cs \in CategoryShapes, ps \in PublishedShapes, bs \in BadShapes }
  \cup { ScenarioDirectory(c) }

InitIndex ==
  \E c \in { "finante", "tech" } :
    /\ notStarted("finance")
    /\ \E files \in DrawnDirectories(c) : emptyData(files)
    /\ call = [fn |-> "updateIndex", category |-> c]
    /\ ret = [fn |-> "none"]
    /\ other = NoProcess

CallUpdateIndex ==
  /\ returns("updateIndex", updateIndex(articleFiles, call.category, runs).total)
  /\ indexFile' = [indexFile EXCEPT ![call.category] =
                     updateIndex(articleFiles, call.category, runs).index]
  /\ UNCHANGED << runVars, seenFile, articleFiles, docs, call, other >>

\* updateIndex called on every drawn data directory
SpecIndex == InitIndex /\ [][CallUpdateIndex]_vars


-----------------------------------------------------------------------------
(* loadSeen called on every content of a fingerprint file *)

\* longest hashes value of a drawn fingerprint file
MaxHashes == 3

\* the fingerprints a drawn file lists
HashChoices == { hashUrl(u) : u \in 1..3 }

\* a JSON text that parses to a value other than an object with a hashes member:
\* null, a number, a string, an array, an object with another member only
NonHashesValues ==
  { [jsonType |-> t] : t \in { "null", "number", "string", "array" } }
  \cup { [updated |-> toISOString(1)] }

\* an object whose hashes member is an array of fingerprints, a string, or a value
\* that is neither: null (falsy), a number, true, an object
HashesValues ==
  { [hashes |-> h, updated |-> toISOString(1)] : h \in SeqsUpTo(HashChoices, MaxHashes) }
  \cup { [hashes |-> s, hashesType |-> "string", updated |-> toISOString(1)] :
            s \in SeqsUpTo({ "a", "b" }, MaxHashes) }
  \cup { [hashes |-> << >>, hashesType |-> t, updated |-> toISOString(1)] :
            t \in { "null", "number", "boolean", "object" } }

\* the states of seen_finance.json: missing, not JSON, or any of the values above
DrawnSeenFiles ==
  { NoFile, [kind |-> "corrupt"] } \cup { Json(v) : v \in NonHashesValues \cup HashesValues }

InitLoad ==
  /\ notStarted("finance")
  /\ \E f \in DrawnSeenFiles : seenFile = [ag \in Agents |-> IF ag = "finance" THEN f ELSE NoFile]
  /\ articleFiles = << >>
  /\ docs = [c \in Categories |-> << >>]
  /\ indexFile = [c \in Categories |-> NoFile]
  /\ call = [fn |-> "loadSeen", filename |-> "finance"]
  /\ ret = [fn |-> "none"]
  /\ other = NoProcess

CallLoadSeen ==
  /\ returns("loadSeen", loadSeen(seenFile[call.filename]))
  /\ UNCHANGED << runVars, diskVars, call, other >>

\* loadSeen called on every drawn fingerprint file
SpecLoad == InitLoad /\ [][CallLoadSeen]_vars

-----------------------------------------------------------------------------
(* updateIndex called on a data directory one of whose record files is malformed *)

\* most well-formed records beside the malformed one
MaxGood == 3

\* the JSON type of a.published: a string unless the record says otherwise
publishedType(a) == IF "publishedType" \in DOMAIN a THEN a.publishedType ELSE "string"

\* (b.published || "").localeCompare throws when b.published is truthy and not a
\* string: a number and true have no localeCompare
throwsAsReceiver(b) == "published" \in DOMAIN b /\ publishedType(b) \in { "number", "boolean" }

\* the sort calls the comparator when there are two articles or more, on pairs and
\* in an order the engine chooses: it can throw when some article throws as b
sortMayThrow(articles) ==
  Len(articles) >= 2 /\ \E i \in 1..Len(articles) : throwsAsReceiver(articles[i])

\* whatever pair it compares first, b throws
sortMustThrow(articles) ==
  Len(articles) >= 2 /\ \A i \in 1..Len(articles) : throwsAsReceiver(articles[i])

\* a record as saveArticleMeta writes it, as far as updateIndex reads it
goodRecord(i, c) ==
  Json([category |-> IF i % 3 = 0 THEN "other" ELSE c, hash_id |-> i,
        published |-> toISOString((i * 7) % 10)])

\* the contents of the malformed file number i: text that does not parse; null; a
\* number; an object without category; an object with the category and nothing else
\* but its key; an object whose published is 7, null or true
MalformedRecords(i, c) ==
  { [kind |-> "corrupt"],
    Json([jsonType |-> "null"]),
    Json([jsonType |-> "number"]),
    Json([hash_id |-> i, published |-> toISOString(i)]),
    Json([category |-> c, hash_id |-> i]),
    Json([category |-> c, hash_id |-> i, published |-> << "7" >>, publishedType |-> "number"]),
    Json([category |-> c, hash_id |-> i, published |-> << >>, publishedType |-> "null"]),
    Json([category |-> c, hash_id |-> i, published |-> << "t", "r", "u", "e" >>,
          publishedType |-> "boolean"]) }

\* the record has the members updateIndex reads, with the types saveArticleMeta gives them
wellFormed(file) ==
  /\ file.kind = "json"
  /\ { "category", "hash_id", "published" } \subseteq DOMAIN file.value
  /\ publishedType(file.value) = "string"

\* up to MaxGood well-formed records and one malformed file, at any place among them
MalformedDirectories(c) ==
  UNION { UNION { { [i \in 1..(n + 1) |-> IF i = p THEN bad ELSE goodRecord(i, c)] :
                      bad \in MalformedRecords(p, c) } :
                  p \in 1..(n + 1) } :
          n \in 0..MaxGood }

InitIndexMalformed ==
  \E c \in { "finante", "tech" } :
    /\ notStarted("finance")
    /\ \E files \in MalformedDirectories(c) : emptyData(files)
    /\ call = [fn |-> "updateIndex", category |-> c]
    /\ ret = [fn |-> "none"]
    /\ other = NoProcess

\* updateIndex returns
CallUpdateIndexReturns ==
  /\ ~sortMustThrow(matching(articleFiles, call.category))
  /\ CallUpdateIndex

\* the comparator throws: no index is written and the error leaves updateIndex
CallUpdateIndexThrows ==
  /\ sortMayThrow(matching(articleFiles, call.category))
  /\ call.fn = "updateIndex"
  /\ ret.fn = "none"
  /\ ret' = [fn |-> "updateIndex", error |-> "TypeError"]
  /\ UNCHANGED << runVars, diskVars, call, other >>

NextIndexMalformed == CallUpdateIndexReturns \/ CallUpdateIndexThrows

\* updateIndex called on every drawn directory with a malformed file
SpecIndexMalformed == InitIndexMalformed /\ [][NextIndexMalformed]_vars

-----------------------------------------------------------------------------
(* Two processes of one agent over the same data directory *)

\* what a process holds in memory
locals ==
  [ pc |-> pc, argv |-> argv, dryRun |-> dryRun, maxArticles |-> maxArticles,
    loaded |-> loaded, seen |-> seen, srcIdx |-> srcIdx, failed |-> failed,
    allEntries |-> allEntries, j |-> j, newArticles |-> newArticles, k |-> k,
    exitCode |-> exitCode ]

\* a process that has not called run() yet
freshProcess ==
  [ pc |-> "idle", argv |-> << >>, dryRun |-> FALSE, maxArticles |-> Num(5),
    loaded |-> << >>, seen |-> << >>, srcIdx |-> 0, failed |-> { },
    allEntries |-> << >>, j |-> 0, newArticles |-> << >>, k |-> 0, exitCode |-> 0 ]

\* the operating system runs the other process: nothing keeps a second process from
\* starting or from taking a step between two steps of the first. A process that has
\* not called run() has no step to be interrupted in, one that has exited has no
\* step left to take
Switch ==
  /\ pc # "idle"
  /\ other = NoProcess \/ other.pc \notin { "done", "fatal" }
  /\ other' = locals
  /\ LET next == IF other = NoProcess THEN freshProcess ELSE other
     IN  /\ pc' = next.pc
         /\ argv' = next.argv
         /\ dryRun' = next.dryRun
         /\ maxArticles' = next.maxArticles
         /\ loaded' = next.loaded
         /\ seen' = next.seen
         /\ srcIdx' = next.srcIdx
         /\ failed' = next.failed
         /\ allEntries' = next.allEntries
         /\ j' = next.j
         /\ newArticles' = next.newArticles
         /\ k' = next.k
         /\ exitCode' = next.exitCode
  /\ UNCHANGED << agent, runs, diskVars, call, ret >>

\* the command lines of the overlapping runs
OverlapArgvs == { << >>, << MaxArticlesFlag, << "1" >> >> }

\* the steps of either process; every source answers
NextOverlap ==
  \/ \E args \in OverlapArgvs : StartRun(agent, args)
  \/ FetchSource(TRUE)
  \/ ProcessEntry
  \/ WriteArticle
  \/ SaveSeen
  \/ UpdateIndex
  \/ Switch

\* two processes of the finance agent, interleaved at will
SpecOverlap == InitRun("finance") /\ [][NextOverlap]_vars

-----------------------------------------------------------------------------
(* The accept loop, one iteration in two steps: up to newArticles.push, and from
   seen.add on; the await of the extractor lies in the first *)

\* an iteration that adds the fingerprint as soon as the entry has passed the tests
ExamineEntryAddingFirst ==
  /\ pc = "process"
  /\ LET accept == ~skipped(entry, seen)
     IN  /\ newArticles' = IF accept
                             THEN Append(newArticles,
                                    [article |-> generateMeta(articleOfEntry(agent, entry, dryRun),
                                                              BaseKeywords(agent)),
                                     hash |-> hashUrl(entry.url)])
                             ELSE newArticles
         /\ seen' = IF accept THEN seenAdd(seen, hashUrl(entry.url)) ELSE seen
         /\ j' = IF accept THEN j ELSE j + 1
         /\ pc' = IF accept THEN "add"
                  ELSE IF j + 1 = Len(allEntries) THEN afterLoop(dryRun, newArticles)
                  ELSE "process"
  /\ UNCHANGED << agent, argv, dryRun, maxArticles, loaded, srcIdx, failed, allEntries, k,
                  exitCode, runs, diskVars, call, ret, other >>

\* the two continue tests, then detectSubcategory, the article, scrapeContent,
\* generateMeta and newArticles.push
ExamineEntry ==
  /\ pc = "process"
  /\ LET accept == ~skipped(entry, seen)
     IN  /\ newArticles' = IF accept
                             THEN Append(newArticles,
                                    [article |-> generateMeta(articleOfEntry(agent, entry, dryRun),
                                                              BaseKeywords(agent)),
                                     hash |-> hashUrl(entry.url)])
                             ELSE newArticles
         /\ j' = IF accept THEN j ELSE j + 1
         /\ pc' = IF accept THEN "add"
                  ELSE IF j + 1 = Len(allEntries) THEN afterLoop(dryRun, newArticles)
                  ELSE "process"
  /\ UNCHANGED << agent, argv, dryRun, maxArticles, loaded, seen, srcIdx, failed, allEntries,
                  k, exitCode, runs, diskVars, call, ret, other >>

\* seen.add(hash), then the test of the cap
AddFingerprint ==
  /\ pc = "add"
  /\ seen' = seenAdd(seen, hashUrl(entry.url))
  /\ j' = j + 1
  /\ pc' = IF breaks(Len(newArticles), maxArticles) \/ j + 1 = Len(allEntries)
             THEN afterLoop(dryRun, newArticles)
             ELSE "process"
  /\ UNCHANGED << agent, argv, dryRun, maxArticles, loaded, srcIdx, failed, allEntries,
                  newArticles, k, exitCode, runs, diskVars, call, ret, other >>

NextSteps ==
  \/ \E args \in Argvs : StartRun(agent, args)
  \/ \E answers \in BOOLEAN : FetchSource(answers)
  \/ ExamineEntry
  \/ AddFingerprint
  \/ WriteArticle
  \/ SaveSeen
  \/ UpdateIndex

\* the runs of Spec with the iterations of the accept loop in two steps
SpecSteps == Init /\ [][NextSteps]_vars

-----------------------------------------------------------------------------
(* Repeated normal runs with a cap, every source answering *)

\* the command lines without --dry-run whose cap is at least 1
CapArgvs == { << >>, << MaxArticlesFlag, << "1" >> >> }

\* a next run can be started
startable == pc \in { "idle", "done", "fatal" } /\ runs < MaxRuns

NextProgress ==
  \/ \E args \in CapArgvs : StartRun(agent, args)
  \/ FetchSource(TRUE)
  \/ ProcessEntry
  \/ WriteArticle
  \/ SaveSeen
  \/ UpdateIndex

\* one agent is run again and again, as cron does, and a started run keeps taking
\* steps: weak fairness of starting a run and of the steps of a run. Among the steps
\* of NextProgress only the start of a run changes runs, and every step taken while a
\* run is under way is a step of the run and changes pc, srcIdx, j or k.
SpecProgress ==
  /\ Init
  /\ [][NextProgress]_vars
  /\ ([]<>(~startable) \/ []<><<startable>>_runs)
  /\ ([]<>(~running) \/ []<><<running>>_<< pc, srcIdx, j, k >>)
-----------------------------------------------------------------------------
(* Properties *)

\* C1: across the runs of an agent, a URL whose fingerprint is in the persisted
\* fingerprint set when a run starts is never accepted, and never written as a record
\* or a document, by that run; the persisted set never loses a fingerprint, so no
\* later run does either, and a record once written is never written again.
C1_NoReprocessing ==
  [][ LET persisted(a) == IF seenFile[a].kind = "json" /\ "hashes" \in DOMAIN seenFile[a].value
                            THEN { seenFile[a].value.hashes[i] :
                                     i \in 1..Len(seenFile[a].value.hashes) }
                            ELSE { }
          persistedNext(a) == IF seenFile'[a].kind = "json"
                                THEN { seenFile'[a].value.hashes[i] :
                                         i \in 1..Len(seenFile'[a].value.hashes) }
                                ELSE { }
          category == CategoryOf(agent)
      IN  /\ \A a \in Agents : persisted(a) \subseteq persistedNext(a)
          /\ pc' \in { "fetch", "process", "persist", "save" } =>
               \A i \in 1..Len(newArticles') : newArticles'[i].hash \notin persistedNext(agent')
          /\ \A h \in DOMAIN articleFiles' :
               (h \notin DOMAIN articleFiles \/ articleFiles'[h] # articleFiles[h]) =>
                 h \notin persisted(agent) /\ h \notin DOMAIN articleFiles
          /\ \A s \in DOMAIN docs'[category] :
               (s \notin DOMAIN docs[category] \/ docs'[category][s] # docs[category][s]) =>
                 hashUrl(docs'[category][s].sourceUrl) \notin persisted(agent) ]_vars

\* C1 witness: a later run met an entry whose fingerprint was persisted, skipped it
\* and persisted another one
C1_Witness ==
  /\ pc = "done"
  /\ ~dryRun
  /\ loaded # << >>
  /\ newArticles # << >>
  /\ \E i \in 1..Len(allEntries), m \in 1..Len(loaded) :
       /\ allEntries[i].title # << >>
       /\ allEntries[i].url # 0
       /\ hashUrl(allEntries[i].url) = loaded[m]
       /\ loaded[m] \in DOMAIN articleFiles

\* C2: within one run no two accepted articles have the same URL or the same
\* fingerprint, however often the sources deliver a URL.
C2_OncePerRun ==
  \A i, m \in 1..Len(newArticles) :
    i # m => /\ newArticles[i].hash # newArticles[m].hash
             /\ newArticles[i].article.url # newArticles[m].article.url

\* C2 witness: the accept loop has passed two occurrences of a URL, delivered by two
\* different sources, and accepted the URL
C2_Witness ==
  \E i, m \in 1..j :
    /\ i < m
    /\ allEntries[i].url = allEntries[m].url
    /\ allEntries[i].sourceId # allEntries[m].sourceId
    /\ allEntries[i].title # << >>
    /\ allEntries[m].title # << >>
    /\ \E n \in 1..Len(newArticles) : newArticles[n].article.url = allEntries[i].url

\* C3: no step of a run started with --dry-run changes the fingerprint file, an
\* article record, a category index or an HTML document, and the run that follows
\* loads none of the fingerprints the dry run accepted.
C3_DryRunWritesNothing ==
  [][ /\ (dryRun /\ pc \in { "fetch", "process", "persist", "save", "index" }) =>
            UNCHANGED diskVars
      /\ (dryRun /\ pc = "done" /\ pc' = "fetch") =>
            /\ UNCHANGED diskVars
            /\ \A i \in 1..Len(newArticles), m \in 1..Len(loaded') :
                 newArticles[i].hash # loaded'[m] ]_vars

\* C3 witness: a dry run over a data store that earlier runs filled has ended with
\* accepted articles
C3_Witness ==
  /\ pc = "done"
  /\ dryRun
  /\ newArticles # << >>
  /\ seenFile[agent].kind = "json"
  /\ articleFiles # << >>

\* C4: when --max-articles is given a number, a run accepts at most that many
\* articles (none when the number is 0 or negative).
C4_CapIsMaximum ==
  (Len(argv) = 2 /\ argv[1] = MaxArticlesFlag /\ ~parseInt(argv[2]).nan) =>
    Len(newArticles) <= Max(parseInt(argv[2]).val, 0)

\* C5: without --max-articles the cap of a run is 5 for the finance, insurance and
\* tech agents and 8 for the investitii agent.
C5_DefaultCap ==
  (pc # "idle" /\ \A i \in 1..Len(argv) : argv[i] # MaxArticlesFlag) =>
    maxArticles = Num(IF agent = "investitii" THEN 8 ELSE 5)

\* C6: a label's score is the number of its keywords that occur in the text when
\* case is ignored; when the highest score is above 0, detectSubcategory returns the
\* first declared label that has the highest score.
C6_HighestScoreFirstDeclared ==
  ret.fn = "detectSubcategory" =>
    LET text == call.text
        subs == call.subcategories
        same(c, d) == toLowerChar(c) = toLowerChar(d)
        occurs(kw) == \E p \in 0..(Len(text) - Len(kw)) :
                        \A q \in 1..Len(kw) : same(text[p + q], kw[q])
        score(i) == Cardinality({ n \in 1..Len(subs[i].keywords) : occurs(subs[i].keywords[n]) })
        highest(i) == \A m \in 1..Len(subs) : score(m) <= score(i)
    IN  \A i \in 1..Len(subs) :
          (score(i) > 0 /\ highest(i) /\ \A m \in 1..(i - 1) : ~highest(m)) =>
            ret.value = subs[i].label

\* C6 witness: two labels share the highest score, which is above 0, and the first
\* declared of them is returned
C6_Witness ==
  /\ ret.fn = "detectSubcategory"
  /\ Len(call.subcategories) >= 2
  /\ ret.value = call.subcategories[1].label
  /\ \E n \in 1..Len(call.subcategories[1].keywords) :
       includes(toLowerCase(call.text), toLowerCase(call.subcategories[1].keywords[n]))
  /\ keywordScore(toLowerCase(call.text), call.subcategories[1].keywords)
       = keywordScore(toLowerCase(call.text), call.subcategories[2].keywords)

\* C7: detectSubcategory returns "general" exactly when no keyword of any label of
\* the taxonomy occurs in the text, an empty taxonomy included; otherwise it returns
\* a label of the taxonomy.
C7_GeneralIffNoMatch ==
  ret.fn = "detectSubcategory" =>
    LET text == call.text
        subs == call.subcategories
        same(c, d) == toLowerChar(c) = toLowerChar(d)
        occurs(kw) == \E p \in 0..(Len(text) - Len(kw)) :
                        \A q \in 1..Len(kw) : same(text[p + q], kw[q])
        matched == \E i \in 1..Len(subs) : \E n \in 1..Len(subs[i].keywords) :
                     occurs(subs[i].keywords[n])
    IN  /\ (ret.value = "general") <=> ~matched
        /\ matched => \E i \in 1..Len(subs) : ret.value = subs[i].label

\* C7 witness: a text that holds no keyword of a taxonomy that has keywords is
\* labelled "general"
C7_Witness ==
  /\ ret.fn = "detectSubcategory"
  /\ ret.value = "general"
  /\ call.text # << >>
  /\ \E i \in 1..Len(call.subcategories) : call.subcategories[i].keywords # << >>

\* C8: metaTitle has at most 60 characters plus the site suffix and metaDescription
\* at most 155; a title of at most 60 characters is kept, with the suffix appended,
\* and a description of at most 155 characters is kept, the description being the
\* summary, or the title when the summary is empty.
C8_TruncationBounds ==
  ret.fn = "generateMeta" =>
    LET title == call.article.title
        desc  == IF call.article.summary = << >> THEN title ELSE call.article.summary
    IN  /\ Len(ret.value.metaTitle) <= 60 + Len(SiteSuffix)
        /\ Len(ret.value.metaDescription) <= 155
        /\ Len(title) <= 60 => ret.value.metaTitle = title \o SiteSuffix
        /\ Len(desc) <= 155 => ret.value.metaDescription = desc

\* C8 witness: a title of 61 characters was cut and, the summary being empty, became
\* the description unchanged
C8_Witness ==
  /\ ret.fn = "generateMeta"
  /\ Len(call.article.title) = 61
  /\ call.article.summary = << >>
  /\ Len(ret.value.metaTitle) = 60 + Len(SiteSuffix)
  /\ ret.value.metaDescription = call.article.title

\* C9: every article an agent accepts, in a dry run or a normal one, and every
\* record it writes has a whole reading time of at least 2.
C9_ReadingTimeFloor ==
  /\ \A i \in 1..Len(newArticles) :
       newArticles[i].article.readingTime \in Nat /\ newArticles[i].article.readingTime >= 2
  /\ \A h \in DOMAIN articleFiles :
       articleFiles[h].value.reading_time \in Nat /\ articleFiles[h].value.reading_time >= 2

\* C9 witness: a normal run has accepted an article whose summary and body are empty
\* and one whose body is not
C9_Witness ==
  /\ ~dryRun
  /\ \E i, m \in 1..Len(newArticles) :
       /\ newArticles[i].article.summary = << >>
       /\ newArticles[i].article.contentHtml = << >>
       /\ newArticles[m].article.contentHtml # << >>

\* C10: the index updateIndex writes for a category has as total the number of
\* parseable records of that category, lists min(50, total) of them, each once, in
\* descending order of their published strings (a missing one counting as ""), no
\* unlisted record having a greater published string than a listed one; updateIndex
\* returns the total.
C10_IndexOfCategory ==
  ret.fn = "updateIndex" =>
    LET c      == call.category
        M      == { n \in DOMAIN articleFiles :
                      /\ articleFiles[n].kind = "json"
                      /\ "category" \in DOMAIN articleFiles[n].value
                      /\ articleFiles[n].value.category = c }
        idx    == indexFile[c].value
        list   == idx.articles
        pub(r) == IF "published" \in DOMAIN r THEN r.published ELSE << >>
        listed == { n \in M : \E i \in 1..Len(list) : list[i] = articleFiles[n].value }
    IN  /\ indexFile[c].kind = "json"
        /\ idx.category = c
        /\ idx.total = Cardinality(M)
        /\ ret.value = Cardinality(M)
        /\ Len(list) = Min(50, Cardinality(M))
        /\ Cardinality(listed) = Len(list)
        /\ \A i \in 1..Len(list) : \E n \in M : list[i] = articleFiles[n].value
        /\ \A i \in 1..(Len(list) - 1) : localeCompare(pub(list[i]), pub(list[i + 1])) >= 0
        /\ \A n \in M \ listed : \A i \in 1..Len(list) :
             localeCompare(pub(list[i]), pub(articleFiles[n].value)) >= 0

\* C10 witness: over 60 records of the category and 10 of others the index has
\* total 60 and lists 50
C10_Witness ==
  /\ ret.fn = "updateIndex"
  /\ ret.value = 60
  /\ Len(articleFiles) = 70
  /\ indexFile[call.category].value.total = 60
  /\ Len(indexFile[call.category].value.articles) = 50

\* the entries the sources 1..n have contributed, a failed source contributing none
RECURSIVE contributed(_)
contributed(n) ==
  IF n = 0 THEN << >>
  ELSE contributed(n - 1)
         \o (IF n \in failed THEN << >>
             ELSE fetchSource(agent, SourcesOf(agent)[n], TRUE, runs))

\* C11: a source whose fetch fails contributes no entry and changes nothing else; the
\* entries of every other source are fetched, in source order, and go through the
\* accept loop; the run does not abort: it attempts every source and exits with 0.
C11_FailedSourceIsolated ==
  /\ failed \subseteq 1..srcIdx
  /\ allEntries = contributed(srcIdx)
  /\ pc \in { "process", "persist", "save", "index", "done" } =>
       /\ srcIdx = Len(SourcesOf(agent))
       /\ exitCode = 0
  /\ pc \in { "persist", "save", "index", "done" } =>
       \/ breaks(Len(newArticles), maxArticles)
       \/ \A i \in 1..Len(allEntries) :
            (allEntries[i].title # << >> /\ allEntries[i].url # 0) =>
              \E m \in 1..Len(seen) : seen[m] = hashUrl(allEntries[i].url)

\* C11 witness: a normal run whose first source failed and whose second answered has
\* completed, having accepted and written articles of the second source
C11_Witness ==
  /\ pc = "done"
  /\ ~dryRun
  /\ 1 \in failed
  /\ 2 \notin failed
  /\ \E i \in 1..Len(newArticles) :
       /\ newArticles[i].hash \in DOMAIN articleFiles
       /\ \E m \in 1..Len(allEntries) :
            /\ allEntries[m].url = newArticles[i].article.url
            /\ allEntries[m].sourceId = SourcesOf(agent)[2].id

\* C12: when the page of an entry the accept loop takes cannot be fetched, the step
\* does not end the run: the article is accepted with an empty body and its
\* fingerprint enters the in-memory set; the persistence step of an article with an
\* empty body writes its record and its document, the document with no body paragraph.
C12_ExtractionFailureAccepted ==
  [][ /\ (pc = "process" /\ ~dryRun /\ ~skipped(entry, seen) /\ ~PageOf(entry.url).ok) =>
            /\ pc' # "fatal"
            /\ exitCode' = 0
            /\ Len(newArticles') = Len(newArticles) + 1
            /\ newArticles'[Len(newArticles')].article.url = entry.url
            /\ newArticles'[Len(newArticles')].article.contentHtml = << >>
            /\ newArticles'[Len(newArticles')].hash = hashUrl(entry.url)
            /\ \E m \in 1..Len(seen') : seen'[m] = hashUrl(entry.url)
      /\ (pc = "persist" /\ current.article.contentHtml = << >>) =>
            /\ pc' # "fatal"
            /\ current.hash \in DOMAIN articleFiles'
            /\ articleFiles'[current.hash].value.title = current.article.title
            /\ articleFiles'[current.hash].value.hash_id = current.hash
            /\ current.article.slug \in DOMAIN docs'[CategoryOf(agent)]
            /\ docs'[CategoryOf(agent)][current.article.slug].sourceUrl = current.article.url
            /\ docs'[CategoryOf(agent)][current.article.slug].paragraphs = << >> ]_vars

\* C12 witness: a normal run has completed having accepted an entry whose page could
\* not be fetched; its fingerprint is saved, its record and its document are on disk
C12_Witness ==
  /\ pc = "done"
  /\ ~dryRun
  /\ \E i \in 1..Len(newArticles) :
       LET a == newArticles[i].article
       IN  /\ ~PageOf(a.url).ok
           /\ a.contentHtml = << >>
           /\ newArticles[i].hash \in DOMAIN articleFiles
           /\ \E m \in 1..Len(seenFile[agent].value.hashes) :
                seenFile[agent].value.hashes[m] = newArticles[i].hash
           /\ a.slug \in DOMAIN docs[CategoryOf(agent)]
           /\ docs[CategoryOf(agent)][a.slug].sourceUrl = a.url
           /\ docs[CategoryOf(agent)][a.slug].paragraphs = << >>

\* C13: loadSeen returns the empty set when the fingerprint file is missing, is not
\* valid JSON, or is JSON without a hashes member that is a list; it returns exactly
\* the fingerprints listed when the member is a list.
C13_LoadSeenEmptyUnlessList ==
  ret.fn = "loadSeen" =>
    LET file   == seenFile[call.filename]
        listed == /\ file.kind = "json"
                  /\ "hashes" \in DOMAIN file.value
                  /\ hashesType(file.value) = "array"
    IN  IF listed
          THEN { ret.value[i] : i \in 1..Len(ret.value) }
                 = { file.value.hashes[i] : i \in 1..Len(file.value.hashes) }
          ELSE ret.value = << >>

\* C14: whatever one record file contains, updateIndex completes, and the index it
\* writes counts and lists exactly the well-formed records of the category.
C14_MalformedRecordNeverFatal ==
  ret.fn = "updateIndex" =>
    /\ "value" \in DOMAIN ret
    /\ indexFile[call.category].kind = "json"
    /\ LET index == indexFile[call.category].value
           good  == { n \in DOMAIN articleFiles :
                        /\ wellFormed(articleFiles[n])
                        /\ articleFiles[n].value.category = call.category }
       IN  /\ index.total = Cardinality(good)
           /\ { index.articles[i].hash_id : i \in 1..Len(index.articles) } = good

\* a normal run that found nothing new is about to rewrite the fingerprint file and
\* the index an earlier run left
rewritesUnchanged ==
  /\ ~dryRun
  /\ newArticles = << >>
  /\ pc \in { "save", "index" }
  /\ seenFile[agent].kind = "json"
  /\ indexFile[CategoryOf(agent)].kind = "json"

\* the fingerprints a fingerprint file holds
fingerprintsOf(file) == { file.value.hashes[i] : i \in 1..Len(file.value.hashes) }

\* C15 as stated: a normal run that finds nothing new after an earlier normal run
\* leaves the fingerprint set and the whole category index, its last-updated
\* timestamp included, as they were.
C15_IdenticalContents ==
  [][ rewritesUnchanged =>
        /\ fingerprintsOf(seenFile'[agent]) = fingerprintsOf(seenFile[agent])
        /\ indexFile'[CategoryOf(agent)] = indexFile[CategoryOf(agent)] ]_vars

\* C15 amended: a normal run that finds nothing new after an earlier normal run
\* leaves the fingerprint list and the index's category, total and article list as
\* they were; the last-updated timestamps of both files become the time of this run.
C15_IdenticalButTimestamp ==
  [][ rewritesUnchanged =>
        LET c == CategoryOf(agent)
        IN  /\ seenFile'[agent].value.hashes = seenFile[agent].value.hashes
            /\ indexFile'[c].value.category = indexFile[c].value.category
            /\ indexFile'[c].value.total = indexFile[c].value.total
            /\ indexFile'[c].value.articles = indexFile[c].value.articles
            /\ pc = "save" => seenFile'[agent].value.updated = toISOString(runs)
            /\ pc = "index" => indexFile'[c].value.updated = toISOString(runs) ]_vars

\* C15 witness: the second normal run in a row has completed without a new article,
\* over a fingerprint file and an index that list the articles of the first
C15_Witness ==
  /\ pc = "done"
  /\ ~dryRun
  /\ runs = 2
  /\ newArticles = << >>
  /\ allEntries # << >>
  /\ loaded # << >>
  /\ seenFile[agent].value.hashes = loaded
  /\ seenFile[agent].value.updated = toISOString(2)
  /\ indexFile[CategoryOf(agent)].value.total > 0
  /\ indexFile[CategoryOf(agent)].value.updated = toISOString(2)

\* C16: nothing excludes two runs of one agent from each other: a process that saves
\* the fingerprint file writes exactly the set it holds in memory, so that a
\* fingerprint another process saved after this one loaded the file is lost.
C16_LastWriterWins ==
  [][ (pc = "save" /\ pc' = "index" /\ other' = other) =>
        /\ seenFile'[agent].value.hashes = seen
        /\ \A h \in (IF seenFile[agent].kind = "json"
                       THEN fingerprintsOf(seenFile[agent]) ELSE { }) :
             (\A m \in 1..Len(seen) : seen[m] # h) => h \notin fingerprintsOf(seenFile'[agent])
    ]_vars

\* C16 witness: two runs have overlapped and completed: they loaded the same set,
\* both accepted one URL, and the fingerprint file, written last by this one, lacks a
\* fingerprint the other accepted and saved
C16_Witness ==
  /\ pc = "done"
  /\ ~dryRun
  /\ other # NoProcess
  /\ other.pc = "done"
  /\ ~other.dryRun
  /\ loaded = other.loaded
  /\ seenFile[agent].value.hashes = seen
  /\ \E i \in 1..Len(newArticles), m \in 1..Len(other.newArticles) :
       newArticles[i].hash = other.newArticles[m].hash
  /\ \E m \in 1..Len(other.newArticles) :
       other.newArticles[m].hash \notin fingerprintsOf(seenFile[agent])

\* C17: a document once written for an article stays that article's: no step
\* replaces the document of one URL by the document of another.
C17_OwnDocument ==
  [][ \A c \in Categories :
        \A s \in DOMAIN docs[c] :
          /\ s \in DOMAIN docs'[c]
          /\ docs'[c][s].sourceUrl = docs[c][s].sourceUrl ]_vars

\* C18: once the record file of an article has been written, no step of any run of
\* any agent changes or replaces it.
C18_RecordWrittenOnce ==
  [][ \A h \in DOMAIN articleFiles :
        /\ h \in DOMAIN articleFiles'
        /\ articleFiles'[h] = articleFiles[h] ]_vars

\* the members every record is to have
RecordFields ==
  { "title", "slug", "category", "subcategory", "meta_title", "meta_description",
    "meta_keywords", "author", "published", "reading_time", "source", "hash_id", "url" }

\* C19: every record file is named after the fingerprint its hash_id holds, has all
\* the members of RecordFields, and its url is "/{category}/{slug}".
C19_RecordComplete ==
  \A h \in DOMAIN articleFiles :
    /\ articleFiles[h].kind = "json"
    /\ RecordFields \subseteq DOMAIN articleFiles[h].value
    /\ articleFiles[h].value.hash_id = h
    /\ articleFiles[h].value.url
         = << articleFiles[h].value.category, articleFiles[h].value.slug >>

\* the in-memory set holds the fingerprint of the entry the accept loop looks at
entrySeen == \E m \in 1..Len(seen) : seen[m] = hashUrl(entry.url)

\* the step of the accept loop appends an article for its entry
entryAccepted ==
  /\ Len(newArticles') = Len(newArticles) + 1
  /\ SubSeq(newArticles', 1, Len(newArticles)) = newArticles
  /\ newArticles'[Len(newArticles')].hash = hashUrl(entry.url)
  /\ newArticles'[Len(newArticles')].article.url = entry.url

C21_AddedBeforeClassified ==
  \A i \in 1..Len(newArticles) : \E m \in 1..Len(seen) : seen[m] = newArticles[i].hash

\* C21 amended: the fingerprint of an accepted entry is added to the in-memory set
\* after the entry has been classified, its body extracted, its metadata derived and
\* the article pushed: then the set does not hold it yet, the next step adds it, and
\* no other entry is examined in between.
C21_AddedAfterPushed ==
  [][ /\ pc = "add" =>
           LET last == newArticles[Len(newArticles)]
           IN  /\ last.hash = hashUrl(entry.url)
               /\ last.article = generateMeta(articleOfEntry(agent, entry, dryRun),
                                              BaseKeywords(agent))
               /\ \A m \in 1..Len(seen) : seen[m] # last.hash
               /\ seen' = Append(seen, last.hash)
               /\ newArticles' = newArticles
               /\ j' = j + 1
      /\ pc' # "add" =>
           \A i \in 1..Len(newArticles') :
             \E m \in 1..Len(seen') : seen'[m] = newArticles'[i].hash ]_vars

\* C21 witness: a normal run has accepted an entry, classified it under a label and
\* extracted its body, and has then added its fingerprint as the last of the set
C21_Witness ==
  /\ pc \in { "process", "persist" }
  /\ ~dryRun
  /\ newArticles # << >>
  /\ newArticles[Len(newArticles)].article.contentHtml # << >>
  /\ newArticles[Len(newArticles)].article.subcategory # GeneralLabel
  /\ seen # << >>
  /\ seen[Len(seen)] = newArticles[Len(newArticles)].hash

\* C22: a write of a document, a record, the fingerprint file or the index that
\* fails ends the run in the fatal state with exit status 1; no fetch step and no
\* step of the accept loop, whatever source or page fails in it, ends the run so, and
\* a run that completes has exit status 0.
C22_ExitStatus ==
  [][ /\ pc' = "fatal" => exitCode' # 0
      /\ pc' = "done" => exitCode' = 0
      /\ (pc' = "fatal" /\ pc # "fatal") => pc \in { "persist", "save", "index" }
      /\ pc \in { "fetch", "process" } => (pc' # "fatal" /\ exitCode' = 0) ]_vars

\* C22 witness: a run in which a source failed and a page could not be fetched went
\* on to the persistence phase, where a write failed: it is in the fatal state with
\* exit status 1
C22_Witness ==
  /\ pc = "fatal"
  /\ exitCode = 1
  /\ failed # { }
  /\ \E i \in 1..Len(newArticles) : ~PageOf(newArticles[i].article.url).ok

\* C23: every run that has started reaches its completion or the fatal exit.
C23_RunsTerminate ==
  (pc \in { "fetch", "process", "persist", "save", "index" }) ~> (pc \in { "done", "fatal" })

\* C23 witness: a normal run that fetched every source, went through six entries or
\* more and wrote two articles has completed
C23_Witness ==
  /\ pc = "done"
  /\ ~dryRun
  /\ srcIdx = Len(SourcesOf(agent))
  /\ Len(allEntries) >= 6
  /\ j = Len(allEntries)
  /\ k = Len(newArticles)
  /\ k >= 2

\* C24: the metaKeywords generateMeta returns hold each keyword once; they are the
\* base keywords and the first four (or fewer) keywords of the article's taxonomy
\* entry, each at the place of its first occurrence in that list; with no taxonomy
\* keywords (label "general") they are the base keywords, each once.
C24_MetaKeywords ==
  ret.fn = "generateMeta" =>
    LET kw    == ret.value.metaKeywords
        sub   == call.article.subcategoryKeywords
        given == call.baseKeywords \o SubSeq(sub, 1, Min(4, Len(sub)))
        first(x) == CHOOSE i \in 1..Len(given) : given[i] = x /\ \A m \in 1..(i - 1) : given[m] # x
    IN  /\ \A a, b \in 1..Len(kw) : a # b => kw[a] # kw[b]
        /\ { kw[i] : i \in 1..Len(kw) } = { given[i] : i \in 1..Len(given) }
        /\ \A a, b \in 1..Len(kw) : a < b => first(kw[a]) < first(kw[b])
        /\ sub = << >> => { kw[i] : i \in 1..Len(kw) }
                            = { call.baseKeywords[i] : i \in 1..Len(call.baseKeywords) }

\* C24 witness: generateMeta has returned for a taxonomy entry of more than four
\* keywords and for one that repeats a base keyword
C24_Witness ==
  /\ ret.fn = "generateMeta"
  /\ call.baseKeywords # << >>
  /\ \/ /\ Len(call.article.subcategoryKeywords) > 4
        /\ Len(ret.value.metaKeywords) = Len(call.baseKeywords) + 4
     \/ /\ \E i \in 1..Len(call.article.subcategoryKeywords), m \in 1..Len(call.baseKeywords) :
             call.article.subcategoryKeywords[i] = call.baseKeywords[m]
        /\ Len(ret.value.metaKeywords)
             < Len(call.baseKeywords) + Len(call.article.subcategoryKeywords)

\* C25: the readingTime generateMeta returns is max(2, floor(W / 200)), W being the
\* number of words of the summary followed by the body: the maximal runs of
\* characters that are not whitespace.
C25_ReadingTimeOfWords ==
  ret.fn = "generateMeta" =>
    LET text == call.article.summary \o << " " >> \o call.article.contentHtml
        W    == Cardinality({ i \in 1..Len(text) :
                                /\ text[i] \notin WhitespaceChars
                                /\ (i = 1 \/ text[i - 1] \in WhitespaceChars) })
    IN  ret.value.readingTime = Max(2, W \div 200)

\* C26: the body a normal run extracts from a page that answers is the text of the
\* first selector, in the agent's order, whose kept paragraphs joined by a blank line
\* are longer than 100 characters, cut to the agent's cap; it is empty when there is
\* no such selector.
C26_AcceptedByBlankLineJoin ==
  ~dryRun =>
    \A i \in 1..Len(newArticles) :
      LET page    == PageOf(newArticles[i].article.url)
          sels    == Selectors(agent)
          has(s)  == \E b \in 1..Len(page.blocks) : page.blocks[b].selector = s
          text(s) == join(parasOf(page, s), BlankLine)
          ok      == { n \in 1..Len(sels) : has(sels[n]) /\ Len(text(sels[n])) > 100 }
          firstOk == CHOOSE n \in ok : \A m \in ok : n <= m
      IN  page.ok =>
            newArticles[i].article.contentHtml
              = IF ok = { } THEN << >> ELSE slice0(text(sels[firstOk]), ContentCap(agent))

\* the entries of the first n sources, as the fetch loop of this run received them
RECURSIVE fetchedUpTo(_)
fetchedUpTo(n) ==
  IF n = 0 THEN << >>
  ELSE fetchedUpTo(n - 1) \o fetchSource(agent, SourcesOf(agent)[n], n \notin failed, runs)

\* the positions of the fetched entries that have a title and a URL and whose
\* fingerprint is neither loaded nor that of an earlier such entry
eligible ==
  { i \in 1..Len(allEntries) :
      /\ allEntries[i].title # << >>
      /\ allEntries[i].url # 0
      /\ \A m \in 1..Len(loaded) : loaded[m] # hashUrl(allEntries[i].url)
      /\ \A m \in 1..(i - 1) :
           (allEntries[m].title # << >> /\ allEntries[m].url # 0)
             => allEntries[m].url # allEntries[i].url }

\* the position in the fetched entries of the n-th eligible entry
nthEligible(n) == CHOOSE i \in eligible : Cardinality({ m \in eligible : m <= i }) = n

loadedHashes == { loaded[m] : m \in 1..Len(loaded) }

acceptedHashes == { newArticles[n].hash : n \in 1..Len(newArticles) }

\* C28: when a run without the dry-run flag has completed, the fingerprint file of its
\* agent lists the fingerprints the run loaded followed by those of the articles it
\* accepted, each once and no other, and loading the file returns that list.
C28_FileIsLoadedPlusAccepted ==
  (pc = "done" /\ ~dryRun) =>
    /\ seenFile[agent].kind = "json"
    /\ hashesType(seenFile[agent].value) = "array"
    /\ LET hashes == seenFile[agent].value.hashes
       IN  /\ { hashes[m] : m \in 1..Len(hashes) } = loadedHashes \cup acceptedHashes
           /\ \A m, n \in 1..Len(hashes) : hashes[m] = hashes[n] => m = n
           /\ loadSeen(seenFile[agent]) = hashes

\* C28 witness: a completed normal run that had loaded a fingerprint and accepted an
\* article with another one.
C28_Witness ==
  /\ pc = "done"
  /\ ~dryRun
  /\ loadedHashes # { }
  /\ acceptedHashes # { }
  /\ loadedHashes \cap acceptedHashes = { }
  /\ loadSeen(seenFile[agent]) = seen

\* C29: in sequential runs of one agent that start from an empty data directory, with
\* writes that may fail, every fingerprint the fingerprint file lists has its record
\* file at every moment; the fingerprint file is written only after the last article
\* of the run has been persisted, and the index only after the fingerprint file, as the
\* last step of the run.
C29_RecordsBeforeFingerprints ==
  /\ [](\A m \in 1..Len(loadSeen(seenFile[agent])) :
          loadSeen(seenFile[agent])[m] \in DOMAIN articleFiles)
  /\ [][ /\ seenFile' # seenFile =>
              (pc = "save" /\ k = Len(newArticles) /\ acceptedHashes \subseteq DOMAIN articleFiles)
         /\ (articleFiles' # articleFiles \/ docs' # docs) => pc = "persist"
         /\ indexFile' # indexFile => (pc = "index" /\ pc' = "done") ]_vars

\* C29 witness: a run has failed in the middle of its persistence phase, after the
\* page of an article was written and before its record, while the fingerprint file
\* holds the fingerprint of an earlier run and not that of the article.
C29_Witness ==
  /\ pc = "fatal"
  /\ k < Len(newArticles)
  /\ current.article.slug \in DOMAIN docs[CategoryOf(agent)]
  /\ current.hash \notin DOMAIN articleFiles
  /\ loadSeen(seenFile[agent]) # << >>
  /\ \A m \in 1..Len(loadSeen(seenFile[agent])) :
       loadSeen(seenFile[agent])[m] # current.hash

\* the entries the agent's sources deliver when they all answer
RECURSIVE upstreamEntries(_)
upstreamEntries(n) ==
  IF n = 0 THEN << >>
  ELSE upstreamEntries(n - 1) \o fetchSource(agent, SourcesOf(agent)[n], TRUE, runs)

\* the fingerprints of the upstream entries that have a title and a URL
validHashes ==
  LET all == upstreamEntries(Len(SourcesOf(agent)))
  IN  { hashUrl(all[i].url) : i \in { m \in 1..Len(all) : all[m].title # << >> /\ all[m].url # 0 } }

\* every such fingerprint is in the fingerprint file and has its record file
allPersisted ==
  \A h \in validHashes :
    /\ \E m \in 1..Len(loadSeen(seenFile[agent])) : loadSeen(seenFile[agent])[m] = h
    /\ h \in DOMAIN articleFiles

\* C30: in repeated runs of one agent without the dry-run flag, with a cap of at least
\* 1, an unchanged upstream and every source answering, the moment comes after which
\* the fingerprint of every upstream entry with a title and a URL is in the fingerprint
\* file and has a record; a run that loaded all these fingerprints accepts no article;
\* and a run that has saved leaves no such entry unpersisted or has made the
\* fingerprint file longer than it found it.
C30_ProgressUnderCap ==
  /\ <>[]allPersisted
  /\ [](validHashes \subseteq loadedHashes => newArticles = << >>)
  /\ [](pc \in { "index", "done" } =>
          \/ allPersisted
          \/ Len(loadSeen(seenFile[agent])) > Len(loaded))

\* C30 witness: the second run with cap 1 has completed; the first source's entry
\* filled the cap of the first run, and the second run accepted an entry that only
\* the second source delivers; every entry is now persisted.
C30_Witness ==
  /\ pc = "done"
  /\ runs = 2
  /\ maxArticles = Num(1)
  /\ loaded # << >>
  /\ Len(newArticles) = 1
  /\ allPersisted
  /\ \E i \in 1..Len(allEntries) :
       /\ allEntries[i].url = newArticles[1].article.url
       /\ allEntries[i].sourceId = SourcesOf(agent)[2].id
  /\ \A i \in 1..Len(allEntries) :
       allEntries[i].url = newArticles[1].article.url
         => allEntries[i].sourceId # SourcesOf(agent)[1].id
====
